---- MODULE Spec2Model ----
(***************************************************************************)
(* Lifecycle verbs of airflow/providers/google/cloud/operators/dataproc.py *)
(* as state machines talking to a remote Dataproc control plane.           *)
(*                                                                         *)
(*   SpecCluster : one invocation of DataprocCreateClusterOperator.execute *)
(*                 against a remote cluster that other actors may create,  *)
(*                 finish, break or delete concurrently.                   *)
(*   SpecJob     : one invocation of a job-submit operator                 *)
(*                 (DataprocJobBaseOperator / DataprocSubmitJobOperator)   *)
(*                 with on_kill firing at an arbitrary point.              *)
(*   SpecIdem    : DataprocCreateClusterOperator.execute run twice in      *)
(*                 sequence on the same cluster name.                      *)
(*   SpecBatch   : one invocation of DataprocCreateBatchOperator.execute   *)
(*                 with on_kill firing at an arbitrary point.              *)
(*   SpecVerbs   : one invocation of cluster create, batch create or one   *)
(*                 of the single-RPC verbs (update, scale, delete,         *)
(*                 template create, instantiate, instantiate inline).      *)
(***************************************************************************)
EXTENDS Integers, Sequences, FiniteSets, TLC

VARIABLES
  pc,               \* position of DataprocCreateClusterOperator.execute
  delete_on_error,  \* self.delete_on_error
  use_if_exists,    \* self.use_if_exists
  timeout,          \* self.timeout (seconds)
  remote,           \* the cluster as the control plane holds it
  nextUuid,         \* uuid the control plane gives the next created cluster
  envSteps,         \* number of steps other actors have taken on the cluster
  cluster,          \* local variable `cluster` of execute
  attempt,          \* 1: first _create_cluster (l.639), 2: the one at l.656
  stage,            \* which _handle_error_state call: 1 (l.647), 2 (l.651), 3 (l.657)
  opUuid,           \* cluster the pending create operation is creating
  time_left,        \* local `time_left` of the wait loops
  delay,            \* state of exponential_sleep_generator
  slept,            \* total of time.sleep so far in the current wait loop
  lastSleep,        \* the latest time.sleep interval
  calls,            \* number of hook calls issued, per RPC
  xcom,             \* number of xcom_push calls
  outcome,          \* how execute ended
  hist,             \* what the invocation has observed so far
  other,            \* locals of a second, suspended invocation of execute
  jpc,              \* position of the job operator's execute
  jkind,            \* which job operator: "base", "engine" or "generic"
  asynchronous,     \* self.asynchronous
  cancel_on_kill,   \* self.cancel_on_kill (generic operator only)
  job_error_states, \* self.job_error_states (base operator only)
  hookErrorStates,  \* states on which hook.wait_for_job raises
  jobIdField,       \* self.dataproc_job_id (base) / self.job_id (generic): 0 is None
  submittedId,      \* id of the job the submit RPC created: 0 if none yet
  jobState,         \* state of the job on the remote side
  jobCalls,         \* number of hook calls issued by the job operator, per RPC
  cancelled,        \* set of job ids for which a cancel_job RPC was issued
  killedAt,         \* position of execute when on_kill fired ("" if it has not)
  joutcome,         \* how the job operator's execute ended
  retval,           \* value execute returned (0: none)
  vpc,              \* position of a single-RPC verb's execute
  vkind,            \* which verb: update, scale, delete, template, ...
  vdecom,           \* scale: the graceful_decommission_timeout argument
  vop,              \* state of the long-running operation the RPC returned
  vcalls,           \* number of mutation RPCs the verb issued
  vxcom,            \* number of correlation records the verb pushed
  vgot,             \* TRUE once the verb holds the resource / finished op
  vraised,          \* the error a remote call of the verb raised ("none")
  voutcome,         \* how the verb's execute ended
  bpc,              \* position of DataprocCreateBatchOperator.execute
  region,           \* batch operator: TRUE iff self.region is not None
  batch_id,         \* batch operator: self.batch_id (0: None)
  operation,        \* batch operator: self.operation ("none": None)
  bop,              \* state of the remote create-batch operation
  bremote,          \* state of the batch held by the remote side
  bcalls,           \* number of hook calls of the batch operator, per call
  braised,          \* the error a remote call raised to the batch operator
  bresult,          \* state of the batch execute returns ("none")
  bkilledAt,        \* position of execute when on_kill fired ("")
  bcancelAt,        \* state of the operation when cancel() was called
  boutcome,         \* how the batch operator's execute ended
  gpc,              \* position of the ClusterGenerator / duration parsers
  custom_image,     \* generator: TRUE iff custom_image is set (truthy)
  custom_image_family, \* generator: TRUE iff custom_image_family is set
  image_version,    \* generator: TRUE iff image_version is set
  num_workers,      \* generator: self.num_workers
  num_preemptible_workers, \* generator: self.num_preemptible_workers
  internal_ip_only, \* generator: self.internal_ip_only
  subnetwork_uri,   \* generator: TRUE iff subnetwork_uri is set
  init_actions_uris, \* generator: TRUE iff init_actions_uris is non-empty
  init_action_timeout, \* generator: self.init_action_timeout, a string
  graceful_decommission_timeout, \* scale operator: the field, a string
  properties_arg,   \* the properties argument the caller passed to __init__
  caller_map,       \* keys now held by the map object the caller passed
  properties,       \* keys of self.properties of the generator
  cluster_data,     \* what make() returned (NoConfig before)
  graised,          \* the error the generator raised ("none")
  parsed,           \* what the duration parser returned or raised
  idle_delete_ttl,  \* generator: TRUE iff idle_delete_ttl is set (truthy)
  auto_delete_time, \* generator: TRUE iff auto_delete_time is set
  auto_delete_ttl,  \* generator: TRUE iff auto_delete_ttl is set
  epc,              \* position of an engine operator before super().execute
  engine,           \* which engine operator: pig, hive, spark_sql, pyspark
  query,            \* query operators: TRUE iff self.query is not None
  query_uri,        \* query operators: TRUE iff self.query_uri is not None
  query_source,     \* what the job template was given ("none")
  main,             \* PySpark: self.main is a local file, or a URI
  config_bucket,    \* PySpark: TRUE iff the cluster's config_bucket is set
  ecalls,           \* PySpark: number of get_cluster and upload calls
  eraised           \* the error the engine operator raised ("none")

clusterVars == <<pc, delete_on_error, use_if_exists, timeout, remote, nextUuid,
                 envSteps, cluster, attempt, stage, opUuid, time_left, delay,
                 slept, lastSleep, calls, xcom, outcome, hist, other>>
jobVars == <<jpc, jkind, asynchronous, cancel_on_kill, job_error_states,
             hookErrorStates, jobIdField, submittedId, jobState, jobCalls,
             cancelled, killedAt, joutcome, retval>>
verbVars == <<vpc, vkind, vdecom, vop, vcalls, vxcom, vgot, vraised,
              voutcome>>
batchVars == <<bpc, region, batch_id, operation, bop, bremote, bcalls,
               braised, bresult, bkilledAt, bcancelAt, boutcome>>
genVars == <<gpc, custom_image, custom_image_family, image_version,
             num_workers, num_preemptible_workers, internal_ip_only,
             subnetwork_uri, init_actions_uris, init_action_timeout,
             graceful_decommission_timeout, properties_arg, caller_map,
             properties, cluster_data, graised, parsed, idle_delete_ttl,
             auto_delete_time, auto_delete_ttl>>
engVars == <<epc, engine, query, query_uri, query_source, main,
             config_bucket, ecalls, eraised>>
vars == <<clusterVars, jobVars, verbVars, batchVars, genVars, engVars>>

----------------------------------------------------------------------------
(* Bounds of the model.                                                    *)

\* steps other actors (and the control plane itself) take on the cluster
MaxEnvSteps == 3
\* values of self.timeout tried, in seconds: 0, below the first interval,
\* exactly the first three intervals (10+20+40), and past the 120 s cap
Timeouts == {0, 5, 70, 160}
\* ids the job id suffix can be drawn from
MaxJobId == 2

----------------------------------------------------------------------------
(* Remote cluster states (Cluster.status.State).                           *)

ClusterStates == {"UNKNOWN", "CREATING", "RUNNING", "ERROR", "UPDATING",
                  "DELETING", "STOPPING", "STOPPED"}
Absent == [state |-> "ABSENT", uuid |-> 0]
NoCluster == [state |-> "NONE", uuid |-> 0]

\* exponential_sleep_generator(initial=10, maximum=120)
InitialDoubled == 10 * 2
Initial == 10
MaximumQuadrupled == 120 * 4
Maximum == 120

Min(a, b) == IF a < b THEN a ELSE b

\* the interval the generator yields in its current state
TimeToSleep(d) == Min(d, Maximum)
\* the generator's next state (kept at the cap once it is reached: every later
\* interval is Maximum)
NextDelay(d) == Min(d * 2, Maximum)

----------------------------------------------------------------------------
(* Decisions of DataprocCreateClusterOperator, as the code takes them.     *)

\* l.640-644: except AlreadyExists around the first _create_cluster
OnAlreadyExistsNeverAdopt(use) == "raise"
OnAlreadyExistsAlwaysAdopt(use) == "get_existing"
OnAlreadyExists(use) == IF ~use THEN "raise" ELSE "get_existing"

\* l.637-639 against l.656: only the first _create_cluster is inside the try
InTryBlockAlways(n) == TRUE
InTryBlock(n) == n = 1

IsErrorStateAlways(c) == TRUE
IsErrorStateNever(c) == FALSE

\* l.587: _handle_error_state returns at once unless the state is ERROR
IsErrorState(c) == c.state = "ERROR"

\* l.594-597: the branch taken once diagnose_cluster has returned
AfterDiagnose(del) == IF del THEN "delete" ELSE "raise"

\* l.648-659: the branch of execute after the first _handle_error_state
BranchOnStateIgnoreDeleting(c) ==
  IF c.state = "CREATING" THEN "wait_creating" ELSE "return"
BranchOnState(c) ==
  IF c.state = "CREATING" THEN "wait_creating"
  ELSE IF c.state = "DELETING" THEN "wait_deleting"
  ELSE "return"

\* l.651: after _wait_for_cluster_in_creating_state, check for ERROR again
AfterWaitCreatingNoRecheck == "done"
AfterWaitCreating == "handle_error"

\* l.606-609: a successful fetch in the deleting wait goes round the loop
AfterFetchInDeletingBreaks == "create"
AfterFetchInDeleting == "wd_loop"

TimedOutAtZero(tl) == tl <= 0

\* l.602, l.617: the deadline test of both wait loops
TimedOut(tl) == tl < 0

\* l.602-603, l.616-618: on a negative time_left the wait raises; nothing
\* in execute catches it
AfterPollTimeoutStays == "wc_loop"
AfterPollTimeoutDeletes == "delete"
AfterPollTimeout == "raise"

\* l.615: the creating wait leaves its loop on `cluster.status.state !=
\* ClusterStatus.State.CREATING`
DoneCreatingOnlyRunning(c) == c.state = "RUNNING"
DoneCreating(c) == c.state # "CREATING"

\* l.608: `except NotFound` is the only handler of the deleting wait
CaughtInDeletingWaitAnything(err) == TRUE
CaughtInDeletingWait(err) == err = "NotFound"

\* l.605, l.620: time_left = time_left - time_to_sleep
TimeLeftAfterSleepInitialOnly(tl, d) == tl - Initial
TimeLeftAfterSleep(tl, d) == tl - d

----------------------------------------------------------------------------
(* Job part, idle while the cluster specification runs.                    *)

JobIdle ==
  /\ jpc = "idle" /\ jkind = "base" /\ asynchronous = FALSE
  /\ cancel_on_kill = TRUE /\ job_error_states = {"ERROR"}
  /\ hookErrorStates = {"ERROR"} /\ jobIdField = 0 /\ submittedId = 0
  /\ jobState = "NONE" /\ jobCalls = [submit |-> 0, wait |-> 0, cancel |-> 0]
  /\ cancelled = {} /\ killedAt = "" /\ joutcome = "none" /\ retval = 0

VerbIdle ==
  /\ vpc = "idle" /\ vkind = "update" /\ vdecom = "absent" /\ vop = "none"
  /\ vcalls = 0 /\ vxcom = 0 /\ vgot = FALSE /\ vraised = "none"
  /\ voutcome = "none"

BatchIdle ==
  /\ bpc = "idle" /\ region = TRUE /\ batch_id = 0 /\ operation = "none"
  /\ bop = "none" /\ bremote = "ABSENT"
  /\ bcalls = [create |-> 0, wait |-> 0, get |-> 0, cancel |-> 0]
  /\ braised = "none" /\ bresult = "none" /\ bkilledAt = ""
  /\ bcancelAt = "none" /\ boutcome = "none"

\* the properties argument of ClusterGenerator.__init__: None, or a map
NoProperties == [given |-> FALSE, keys |-> {}]
\* cluster_data before make() returned
NoConfig == [image |-> "unbuilt", properties |-> {}, secondary |-> FALSE,
             worker_image |-> FALSE, execution_timeout |-> -1,
             lifecycle_config |-> {}]
\* result of a duration parser before it ran
NoParse == [site |-> "none", kind |-> "none", seconds |-> 0]

GenIdle ==
  /\ gpc = "idle" /\ custom_image = FALSE /\ custom_image_family = FALSE
  /\ image_version = FALSE /\ num_workers = 2
  /\ num_preemptible_workers = 0 /\ internal_ip_only = FALSE
  /\ subnetwork_uri = FALSE /\ init_actions_uris = FALSE
  /\ init_action_timeout = <<"1", "0", "m">>
  /\ graceful_decommission_timeout = <<>>
  /\ properties_arg = NoProperties /\ caller_map = {} /\ properties = {}
  /\ cluster_data = NoConfig /\ graised = "none" /\ parsed = NoParse
  /\ idle_delete_ttl = FALSE /\ auto_delete_time = FALSE
  /\ auto_delete_ttl = FALSE

EngIdle ==
  /\ epc = "idle" /\ engine = "pig" /\ query = FALSE /\ query_uri = FALSE
  /\ query_source = "none" /\ main = "uri" /\ config_bucket = FALSE
  /\ ecalls = [get |-> 0, upload |-> 0] /\ eraised = "none"

----------------------------------------------------------------------------
(* SpecCluster: DataprocCreateClusterOperator.execute.                     *)

NoHist == [firstAE |-> FALSE, adopted |-> FALSE, errStage |-> 0,
           inspected |-> 0, firstState |-> "NONE", firstUuid |-> 0,
           waited |-> "none", waitExit |-> "NONE", notFound |-> FALSE,
           second |-> "none", created2 |-> NoCluster,
           diagnosed |-> FALSE, deleteRaised |-> FALSE,
           remoteAtRaise |-> "NONE", timedOut |-> FALSE,
           callsAtTimeout |-> [create |-> 0, get |-> 0, diagnose |-> 0,
                               delete |-> 0],
           wdSeen |-> "none", run |-> 1, ret1 |-> NoCluster,
           foreign |-> FALSE, createdOk |-> 0]

\* the locals of an invocation at l.624, and of one that is not there
StartLocals ==
  [pc |-> "start", cluster |-> NoCluster, attempt |-> 1, stage |-> 0,
   opUuid |-> 0, time_left |-> 0, delay |-> Initial, slept |-> 0,
   lastSleep |-> 0,
   calls |-> [create |-> 0, get |-> 0, diagnose |-> 0, delete |-> 0],
   xcom |-> 0, outcome |-> "none", hist |-> NoHist]
NoOther == [StartLocals EXCEPT !.pc = "idle"]

InitCluster ==
  /\ pc = "start"
  /\ delete_on_error \in BOOLEAN
  /\ use_if_exists \in BOOLEAN
  /\ timeout \in Timeouts
  /\ remote \in {Absent} \cup {[state |-> s, uuid |-> 1] : s \in ClusterStates}
  /\ nextUuid = 2
  /\ envSteps = 0
  /\ cluster = NoCluster
  /\ attempt = 1
  /\ stage = 0
  /\ opUuid = 0
  /\ time_left = 0
  /\ delay = Initial
  /\ slept = 0
  /\ lastSleep = 0
  /\ calls = [create |-> 0, get |-> 0, diagnose |-> 0, delete |-> 0]
  /\ xcom = 0
  /\ outcome = "none"
  /\ hist = NoHist
  /\ other = NoOther
  /\ JobIdle /\ VerbIdle /\ BatchIdle /\ GenIdle /\ EngIdle

Fail(err) == pc' = "failed" /\ outcome' = err

\* l.628-636: the correlation record is pushed before any remote call
XcomPush ==
  /\ pc = "start"
  /\ xcom' = xcom + 1
  /\ pc' = "create"
  /\ UNCHANGED <<jobVars, verbVars, batchVars, other, genVars, engVars>>
  /\ UNCHANGED <<delete_on_error, use_if_exists, timeout, remote, nextUuid,
                 envSteps, cluster, attempt, stage, opUuid, time_left, delay,
                 slept, lastSleep, calls, outcome, hist>>

\* l.557-567: hook.create_cluster; the first one sits in try/except
\* AlreadyExists (l.637-644), the second (l.656) does not
CreateCluster ==
  /\ pc = "create"
  /\ calls' = [calls EXCEPT !.create = @ + 1]
  /\ \/ /\ remote.state # "ABSENT"         \* the remote answers AlreadyExists
        /\ IF InTryBlock(attempt) /\ OnAlreadyExists(use_if_exists) = "get_existing"
             THEN pc' = "get_existing" /\ outcome' = outcome
             ELSE Fail("AlreadyExists")
        /\ hist' = IF attempt = 1 THEN [hist EXCEPT !.firstAE = TRUE]
                   ELSE [hist EXCEPT !.second = "already_exists"]
        /\ UNCHANGED <<remote, nextUuid, opUuid>>
     \/ /\ remote.state = "ABSENT"         \* accepted: an operation is returned
        /\ remote' = [state |-> "CREATING", uuid |-> nextUuid]
        /\ opUuid' = nextUuid
        /\ nextUuid' = nextUuid + 1
        /\ pc' = "result"
        /\ hist' = [hist EXCEPT !.createdOk = @ + 1]
        /\ UNCHANGED outcome
     \/ /\ Fail("RemoteError")             \* the call itself raises
        /\ hist' = IF attempt = 2 THEN [hist EXCEPT !.second = "raised"] ELSE hist
        /\ UNCHANGED <<remote, nextUuid, opUuid>>
  /\ UNCHANGED <<jobVars, verbVars, batchVars, other, genVars, engVars>>
  /\ UNCHANGED <<delete_on_error, use_if_exists, timeout, envSteps, cluster,
                 attempt, stage, time_left, delay, slept, lastSleep, xcom>>

\* l.568: operation.result() blocks until the create operation has finished
\* and returns the cluster, or raises the operation's failure
OperationResult ==
  /\ pc = "result"
  /\ ~(remote.uuid = opUuid /\ remote.state = "CREATING")
  /\ \/ /\ remote.uuid = opUuid /\ remote.state # "ABSENT"
        /\ cluster' = remote
        /\ stage' = IF attempt = 1 THEN 1 ELSE 3
        /\ pc' = "handle_error"
        /\ hist' = IF attempt = 2
                     THEN [hist EXCEPT !.second = "created", !.created2 = remote]
                     ELSE hist
        /\ UNCHANGED outcome
     \/ /\ remote.uuid # opUuid \/ remote.state \in {"ABSENT", "ERROR"}
        /\ Fail("RemoteError")
        /\ hist' = IF attempt = 2 THEN [hist EXCEPT !.second = "raised"] ELSE hist
        /\ UNCHANGED <<cluster, stage>>
  /\ UNCHANGED <<jobVars, verbVars, batchVars, other, genVars, engVars>>
  /\ UNCHANGED <<delete_on_error, use_if_exists, timeout, remote, nextUuid,
                 envSteps, attempt, opUuid, time_left, delay, slept, lastSleep,
                 calls, xcom>>

\* l.644: cluster = self._get_cluster(hook) after AlreadyExists
GetExisting ==
  /\ pc = "get_existing"
  /\ calls' = [calls EXCEPT !.get = @ + 1]
  /\ \/ /\ remote.state # "ABSENT"
        /\ cluster' = remote
        /\ stage' = 1
        /\ pc' = "handle_error"
        /\ hist' = [hist EXCEPT !.adopted = TRUE]
        /\ UNCHANGED outcome
     \/ /\ remote.state = "ABSENT"
        /\ Fail("NotFound")
        /\ UNCHANGED <<cluster, stage, hist>>
     \/ /\ Fail("RemoteError")
        /\ UNCHANGED <<cluster, stage, hist>>
  /\ UNCHANGED <<jobVars, verbVars, batchVars, other, genVars, engVars>>
  /\ UNCHANGED <<delete_on_error, use_if_exists, timeout, remote, nextUuid,
                 envSteps, attempt, opUuid, time_left, delay, slept, lastSleep,
                 xcom>>

DeletingWaitEntryFetchesFirst == "wd_fetch"

\* l.601-606: the deleting wait starts at its loop head, which checks the
\* time left and sleeps; its first _get_cluster follows that sleep
DeletingWaitEntry == "wd_loop"

\* l.586-589 with its three call sites l.647, l.651, l.657 and what follows
\* each when the state is not ERROR
HandleErrorState ==
  /\ pc = "handle_error"
  /\ hist' = [hist EXCEPT
                !.inspected = @ + 1,
                !.errStage = IF IsErrorState(cluster) THEN stage ELSE @,
                !.firstState = IF stage = 1 THEN cluster.state ELSE @,
                !.firstUuid = IF stage = 1 THEN cluster.uuid ELSE @]
  /\ IF IsErrorState(cluster)
       THEN /\ pc' = "diagnose"
            /\ UNCHANGED <<time_left, delay, slept, lastSleep>>
       ELSE /\ TRUE
            /\ IF stage = 1
                 THEN /\ pc' = CASE BranchOnState(cluster) = "wait_creating" -> "wc_fetch"
                                 [] BranchOnState(cluster) = "wait_deleting" -> DeletingWaitEntry
                                 [] OTHER -> "done"
                      \* l.600, l.612: time_left = self.timeout, and a fresh generator
                      /\ time_left' = timeout
                      /\ delay' = Initial
                      /\ slept' = 0
                      /\ lastSleep' = 0
                 ELSE /\ pc' = "done"
                      /\ UNCHANGED <<time_left, delay, slept, lastSleep>>
  /\ outcome' = IF pc' = "done" THEN "returned" ELSE outcome
  /\ UNCHANGED <<jobVars, verbVars, batchVars, other, genVars, engVars>>
  /\ UNCHANGED <<delete_on_error, use_if_exists, timeout, remote, nextUuid,
                 envSteps, cluster, attempt, stage, opUuid, calls, xcom>>

\* l.590-597: hook.diagnose_cluster, then the delete_on_error branch
DiagnoseCluster ==
  /\ pc = "diagnose"
  /\ calls' = [calls EXCEPT !.diagnose = @ + 1]
  /\ \/ /\ hist' = [hist EXCEPT !.diagnosed = TRUE]
        /\ IF AfterDiagnose(delete_on_error) = "delete"
             THEN pc' = "delete" /\ outcome' = outcome
             ELSE Fail("ClusterCreateError")
     \/ /\ Fail("RemoteError")
        /\ hist' = hist
  /\ UNCHANGED <<jobVars, verbVars, batchVars, other, genVars, engVars>>
  /\ UNCHANGED <<delete_on_error, use_if_exists, timeout, remote, nextUuid,
                 envSteps, cluster, attempt, stage, opUuid, time_left, delay,
                 slept, lastSleep, xcom>>

\* l.572-574: hook.delete_cluster; the operation it returns is dropped
DeleteCluster ==
  /\ pc = "delete"
  /\ calls' = [calls EXCEPT !.delete = @ + 1]
  /\ \/ /\ remote.state # "ABSENT"
        /\ remote' = [remote EXCEPT !.state = "DELETING"]
        /\ pc' = "raise_error"
        /\ UNCHANGED <<outcome, hist>>
     \/ /\ Fail("RemoteError")
        /\ hist' = [hist EXCEPT !.deleteRaised = TRUE]
        /\ UNCHANGED remote
  /\ UNCHANGED <<jobVars, verbVars, batchVars, other, genVars, engVars>>
  /\ UNCHANGED <<delete_on_error, use_if_exists, timeout, nextUuid, envSteps,
                 cluster, attempt, stage, opUuid, time_left, delay, slept,
                 lastSleep, xcom>>

\* l.596: raise AirflowException("Cluster was created but was in ERROR state.")
RaiseErrorState ==
  /\ pc = "raise_error"
  /\ Fail("ClusterCreateError")
  /\ hist' = [hist EXCEPT !.remoteAtRaise = remote.state]
  /\ UNCHANGED <<jobVars, verbVars, batchVars, other, genVars, engVars>>
  /\ UNCHANGED <<delete_on_error, use_if_exists, timeout, remote, nextUuid,
                 envSteps, cluster, attempt, stage, opUuid, time_left, delay,
                 slept, lastSleep, calls, xcom>>

\* l.613, l.621: cluster = self._get_cluster(hook) in the creating wait
WaitCreatingFetch ==
  /\ pc = "wc_fetch"
  /\ calls' = [calls EXCEPT !.get = @ + 1]
  /\ \/ /\ remote.state # "ABSENT"
        /\ cluster' = remote
        /\ pc' = "wc_loop"
        /\ UNCHANGED outcome
     \/ /\ remote.state = "ABSENT"
        /\ Fail("NotFound")
        /\ UNCHANGED cluster
     \/ /\ Fail("RemoteError")
        /\ UNCHANGED cluster
  /\ hist' = [hist EXCEPT !.waited = "creating"]
  /\ UNCHANGED <<jobVars, verbVars, batchVars, other, genVars, engVars>>
  /\ UNCHANGED <<delete_on_error, use_if_exists, timeout, remote, nextUuid,
                 envSteps, attempt, stage, opUuid, time_left, delay, slept,
                 lastSleep, xcom>>

\* l.614-618: the loop head of the creating wait
WaitCreatingLoop ==
  /\ pc = "wc_loop"
  /\ IF DoneCreating(cluster)
       THEN /\ stage' = 2
            /\ pc' = AfterWaitCreating
            /\ outcome' = IF AfterWaitCreating = "done" THEN "returned" ELSE outcome
            /\ hist' = [hist EXCEPT !.waitExit = cluster.state]
       ELSE /\ IF TimedOut(time_left)
                 THEN /\ IF AfterPollTimeout = "raise"
                           THEN Fail("PollTimeoutError")
                           ELSE pc' = AfterPollTimeout /\ outcome' = outcome
                      /\ hist' = [hist EXCEPT !.timedOut = TRUE,
                                              !.callsAtTimeout = calls]
                 ELSE pc' = "wc_sleep" /\ outcome' = outcome /\ hist' = hist
            /\ UNCHANGED stage
  /\ UNCHANGED <<jobVars, verbVars, batchVars, other, genVars, engVars>>
  /\ UNCHANGED <<delete_on_error, use_if_exists, timeout, remote, nextUuid,
                 envSteps, cluster, attempt, opUuid, time_left, delay, slept,
                 lastSleep, calls, xcom>>

\* l.604-605, l.619-620: time.sleep(time_to_sleep); time_left -= time_to_sleep
Sleep ==
  /\ pc \in {"wc_sleep", "wd_sleep"}
  /\ lastSleep' = TimeToSleep(delay)
  /\ slept' = slept + TimeToSleep(delay)
  /\ time_left' = TimeLeftAfterSleep(time_left, TimeToSleep(delay))
  /\ delay' = NextDelay(delay)
  /\ pc' = IF pc = "wc_sleep" THEN "wc_fetch" ELSE "wd_fetch"
  /\ UNCHANGED <<jobVars, verbVars, batchVars, other, genVars, engVars>>
  /\ UNCHANGED <<delete_on_error, use_if_exists, timeout, remote, nextUuid,
                 envSteps, cluster, attempt, stage, opUuid, calls, xcom,
                 outcome, hist>>

\* l.601-603: the loop head of the deleting wait
WaitDeletingLoop ==
  /\ pc = "wd_loop"
  /\ IF TimedOut(time_left)
       THEN /\ IF AfterPollTimeout = "raise"
                 THEN Fail("PollTimeoutError")
                 ELSE pc' = AfterPollTimeout /\ outcome' = outcome
            /\ hist' = [hist EXCEPT !.waited = "deleting", !.timedOut = TRUE,
                                    !.callsAtTimeout = calls]
       ELSE /\ pc' = "wd_sleep" /\ outcome' = outcome
            /\ hist' = [hist EXCEPT !.waited = "deleting"]
  /\ UNCHANGED <<jobVars, verbVars, batchVars, other, genVars, engVars>>
  /\ UNCHANGED <<delete_on_error, use_if_exists, timeout, remote, nextUuid,
                 envSteps, cluster, attempt, stage, opUuid, time_left, delay,
                 slept, lastSleep, calls, xcom>>

\* l.606-609: try: self._get_cluster(hook) except NotFound: break, then l.656
WaitDeletingFetch ==
  /\ pc = "wd_fetch"
  /\ calls' = [calls EXCEPT !.get = @ + 1]
  /\ \/ /\ remote.state # "ABSENT"
        /\ pc' = AfterFetchInDeleting
        /\ attempt' = IF AfterFetchInDeleting = "create" THEN 2 ELSE attempt
        /\ hist' = [hist EXCEPT !.wdSeen = remote.state]
        /\ UNCHANGED outcome
     \/ /\ remote.state = "ABSENT"        \* the fetch raises NotFound
        /\ IF CaughtInDeletingWait("NotFound")
             THEN pc' = "create" /\ attempt' = 2 /\ outcome' = outcome
             ELSE Fail("NotFound") /\ attempt' = attempt
        /\ hist' = [hist EXCEPT !.notFound = TRUE, !.wdSeen = "NotFound"]
     \/ /\ IF CaughtInDeletingWait("RemoteError")
             THEN pc' = "create" /\ attempt' = 2 /\ outcome' = outcome
             ELSE Fail("RemoteError") /\ attempt' = attempt
        /\ hist' = [hist EXCEPT !.wdSeen = "RemoteError"]
  /\ UNCHANGED <<jobVars, verbVars, batchVars, other, genVars, engVars>>
  /\ UNCHANGED <<delete_on_error, use_if_exists, timeout, remote, nextUuid,
                 envSteps, cluster, stage, opUuid, time_left, delay, slept,
                 lastSleep, xcom>>

\* The control plane and other actors: a creation or deletion finishes, a
\* running cluster breaks, someone else deletes or creates the cluster.
Environment ==
  /\ pc \notin {"done", "failed"}
  /\ envSteps < MaxEnvSteps
  /\ envSteps' = envSteps + 1
  /\ \/ /\ remote.state = "CREATING"
        /\ \E s \in {"RUNNING", "ERROR"} : remote' = [remote EXCEPT !.state = s]
        /\ UNCHANGED <<nextUuid, hist>>
     \/ /\ remote.state = "DELETING"
        /\ remote' = Absent
        /\ UNCHANGED <<nextUuid, hist>>
     \/ /\ remote.state \in ClusterStates \ {"DELETING", "CREATING"}
        /\ remote' = [remote EXCEPT !.state = "DELETING"]
        /\ hist' = [hist EXCEPT !.foreign = TRUE]
        /\ UNCHANGED nextUuid
     \/ /\ remote.state = "ABSENT"
        /\ pc # "result"
        /\ remote' = [state |-> "CREATING", uuid |-> nextUuid]
        /\ nextUuid' = nextUuid + 1
        /\ hist' = [hist EXCEPT !.foreign = TRUE]
  /\ UNCHANGED <<jobVars, verbVars, batchVars, other, genVars, engVars>>
  /\ UNCHANGED <<pc, delete_on_error, use_if_exists, timeout, cluster, attempt,
                 stage, opUuid, time_left, delay, slept, lastSleep, calls, xcom,
                 outcome>>

NextCluster ==
  \/ XcomPush
  \/ CreateCluster
  \/ OperationResult
  \/ GetExisting
  \/ HandleErrorState
  \/ DiagnoseCluster
  \/ DeleteCluster
  \/ RaiseErrorState
  \/ WaitCreatingFetch
  \/ WaitCreatingLoop
  \/ Sleep
  \/ WaitDeletingLoop
  \/ WaitDeletingFetch
  \/ Environment

SpecCluster == InitCluster /\ [][NextCluster]_vars

\* The task is run a second time, with the same configuration and cluster
\* name, after its first execute has returned: execute starts again from
\* l.624 with fresh locals; what the remote side holds stays.
Restart ==
  /\ pc = "done"
  /\ hist.run = 1
  /\ pc' = "start"
  /\ cluster' = NoCluster
  /\ attempt' = 1
  /\ stage' = 0
  /\ opUuid' = 0
  /\ time_left' = 0
  /\ delay' = Initial
  /\ slept' = 0
  /\ lastSleep' = 0
  /\ calls' = [create |-> 0, get |-> 0, diagnose |-> 0, delete |-> 0]
  /\ xcom' = 0
  /\ outcome' = "none"
  /\ hist' = [NoHist EXCEPT !.run = 2, !.ret1 = cluster,
                            !.foreign = hist.foreign,
                            !.createdOk = hist.createdOk]
  /\ UNCHANGED <<jobVars, verbVars, batchVars, other, genVars, engVars>>
  /\ UNCHANGED <<delete_on_error, use_if_exists, timeout, remote, nextUuid,
                 envSteps>>

NextIdem ==
  \/ XcomPush
  \/ CreateCluster
  \/ OperationResult
  \/ GetExisting
  \/ HandleErrorState
  \/ DiagnoseCluster
  \/ DeleteCluster
  \/ RaiseErrorState
  \/ WaitCreatingFetch
  \/ WaitCreatingLoop
  \/ Sleep
  \/ WaitDeletingLoop
  \/ WaitDeletingFetch
  \/ Environment
  \/ Restart

SpecIdem == InitCluster /\ [][NextIdem]_vars

\* Two invocations of execute (l.624-659) of the same task definition, hence
\* the same cluster name and the same parameters, run concurrently against
\* the one remote side. The variables pc .. hist are the locals of the
\* invocation that takes the next step, `other` holds those of the one that
\* is suspended; Switch hands the processor over.
ConcTimeouts == {5}

InitConc ==
  /\ pc = "start"
  /\ delete_on_error \in BOOLEAN
  /\ use_if_exists = TRUE
  /\ timeout \in ConcTimeouts
  /\ remote \in {Absent} \cup {[state |-> s, uuid |-> 1] : s \in ClusterStates}
  /\ nextUuid = 2
  /\ envSteps = 0
  /\ cluster = NoCluster
  /\ attempt = 1
  /\ stage = 0
  /\ opUuid = 0
  /\ time_left = 0
  /\ delay = Initial
  /\ slept = 0
  /\ lastSleep = 0
  /\ calls = [create |-> 0, get |-> 0, diagnose |-> 0, delete |-> 0]
  /\ xcom = 0
  /\ outcome = "none"
  /\ hist = NoHist
  /\ other = StartLocals
  /\ JobIdle /\ VerbIdle /\ BatchIdle /\ GenIdle /\ EngIdle

Switch ==
  /\ other.pc \notin {"idle", "done", "failed"}
  /\ other' = [pc |-> pc, cluster |-> cluster, attempt |-> attempt,
               stage |-> stage, opUuid |-> opUuid, time_left |-> time_left,
               delay |-> delay, slept |-> slept, lastSleep |-> lastSleep,
               calls |-> calls, xcom |-> xcom, outcome |-> outcome,
               hist |-> hist]
  /\ pc' = other.pc
  /\ cluster' = other.cluster
  /\ attempt' = other.attempt
  /\ stage' = other.stage
  /\ opUuid' = other.opUuid
  /\ time_left' = other.time_left
  /\ delay' = other.delay
  /\ slept' = other.slept
  /\ lastSleep' = other.lastSleep
  /\ calls' = other.calls
  /\ xcom' = other.xcom
  /\ outcome' = other.outcome
  /\ hist' = other.hist
  /\ UNCHANGED <<jobVars, verbVars, batchVars, genVars, engVars>>
  /\ UNCHANGED <<delete_on_error, use_if_exists, timeout, remote, nextUuid,
                 envSteps>>

NextConc ==
  \/ XcomPush
  \/ CreateCluster
  \/ OperationResult
  \/ GetExisting
  \/ HandleErrorState
  \/ DiagnoseCluster
  \/ DeleteCluster
  \/ RaiseErrorState
  \/ WaitCreatingFetch
  \/ WaitCreatingLoop
  \/ Sleep
  \/ WaitDeletingLoop
  \/ WaitDeletingFetch
  \/ Environment
  \/ Switch

SpecConc == InitConc /\ [][NextConc]_vars

----------------------------------------------------------------------------
(* Claims about DataprocCreateClusterOperator.execute (SpecCluster).       *)

Ended == pc \in {"done", "failed"}
InErrorHandling == pc \in {"diagnose", "delete", "raise_error", "failed"}

\* C1: whenever the created or adopted cluster is observed in state ERROR,
\* the invocation fails with the cluster-create error, after exactly one
\* delete-cluster call if delete_on_error and after none otherwise.
C1_ErrorStateDeletesOnceAndRaisesCreateError ==
  (Ended /\ hist.errStage # 0) =>
    /\ outcome = "ClusterCreateError"
    /\ calls.delete = (IF delete_on_error THEN 1 ELSE 0)

\* C2: when the first create call raises AlreadyExists, then with
\* use_if_exists the existing cluster is fetched and its state inspected
\* (the AlreadyExists does not end the invocation), and without it the
\* invocation fails with AlreadyExists and has issued no fetch, diagnose or
\* delete call.
C2_AlreadyExistsAdoptedOrPropagated ==
  hist.firstAE =>
    IF use_if_exists
      THEN /\ pc = "get_existing" \/ calls.get >= 1
           /\ hist.adopted =>
                (pc = "handle_error" /\ stage = 1 /\ cluster.uuid # 0)
                \/ hist.inspected >= 1
           /\ outcome = "AlreadyExists" => hist.second = "already_exists"
      ELSE /\ pc = "failed"
           /\ outcome = "AlreadyExists"
           /\ calls = [create |-> 1, get |-> 0, diagnose |-> 0, delete |-> 0]

C2_Witness ==
  /\ hist.firstAE /\ use_if_exists /\ hist.adopted
  /\ pc = "done" /\ cluster.state = "RUNNING"

\* C3: a cluster observed CREATING is waited for, and the cluster the wait
\* ends with is checked for ERROR again: if it is in ERROR the invocation
\* goes through the same handling as a cluster first seen in ERROR (one
\* diagnose call, then a delete call exactly if delete_on_error, then the
\* cluster-create error unless one of these two calls raised) and never
\* returns normally.
C3_ErrorAfterCreatingWaitIsHandled ==
  /\ hist.firstState = "CREATING" =>
       \/ pc \in {"wc_fetch", "wc_loop", "wc_sleep"}
       \/ pc = "failed" /\ outcome \in {"PollTimeoutError", "NotFound", "RemoteError"}
            /\ hist.waitExit = "NONE"
       \/ hist.waitExit \notin {"NONE", "CREATING"}
  /\ (hist.waited = "creating" /\ hist.waitExit = "ERROR") =>
       /\ pc # "done"
       /\ (pc = "handle_error" /\ stage = 2) \/ InErrorHandling
       /\ InErrorHandling => hist.errStage = 2
       /\ pc = "failed" =>
            /\ calls.diagnose = 1
            /\ calls.delete = (IF delete_on_error /\ hist.diagnosed THEN 1 ELSE 0)
            /\ \/ outcome = "ClusterCreateError"
               \/ outcome = "RemoteError" /\ (~hist.diagnosed \/ hist.deleteRaised)

C3_Witness ==
  /\ hist.firstState = "CREATING" /\ hist.waitExit = "ERROR" /\ slept > 0
  /\ pc = "failed" /\ outcome = "ClusterCreateError"
  /\ delete_on_error /\ calls.delete = 1

\* C4: a cluster observed DELETING is polled until a fetch raises NotFound;
\* the second create call is issued only after that NotFound, and when it
\* returns a cluster that is not in ERROR the invocation returns that newly
\* created cluster.
C4_DeletingWaitThenCreateReturnsNewCluster ==
  /\ (attempt = 2 \/ calls.create >= 2) =>
       hist.notFound /\ hist.firstState = "DELETING" /\ calls.get >= 1
  /\ (hist.firstState = "DELETING" /\ ~hist.notFound) =>
       /\ pc \in {"wd_loop", "wd_sleep", "wd_fetch", "failed"}
       /\ calls.create = 1
  /\ (hist.second = "created" /\ hist.created2.state # "ERROR") =>
       pc \in {"handle_error", "done"} /\ cluster = hist.created2
  /\ (pc = "done" /\ hist.firstState = "DELETING") =>
       /\ hist.second = "created"
       /\ cluster = hist.created2
       /\ cluster.uuid = opUuid /\ cluster.uuid > hist.firstUuid

C4_Witness ==
  /\ hist.firstState = "DELETING" /\ hist.notFound /\ calls.get >= 2
  /\ pc = "done" /\ cluster.state = "RUNNING" /\ cluster.uuid > hist.firstUuid

\* C5 as claimed: after the deleting wait the re-issued create is handled by
\* create_or_adopt all over again: its AlreadyExists is recovered by adopting
\* when use_if_exists, and the cluster it yields is inspected for ERROR,
\* CREATING and DELETING before the invocation returns.
C5_RecreateRecursesIntoCreateOrAdopt ==
  /\ (hist.second = "already_exists" /\ use_if_exists) =>
       outcome # "AlreadyExists"
  /\ (pc = "done" /\ attempt = 2) =>
       cluster.state \notin {"ERROR", "CREATING", "DELETING"}

\* C5 as amended: after the deleting wait the create is re-issued once,
\* outside the AlreadyExists recovery: an AlreadyExists it raises ends the
\* invocation with that error whatever use_if_exists is, and the cluster it
\* yields is inspected for ERROR only, a cluster in any other state
\* (CREATING and DELETING included) being returned as it is.
C5_RecreateIsPlainCreate ==
  /\ calls.create <= 2
  /\ hist.second = "already_exists" =>
       pc = "failed" /\ outcome = "AlreadyExists"
  /\ hist.second = "created" =>
       /\ cluster = hist.created2
       /\ IF hist.created2.state = "ERROR"
            THEN (pc = "handle_error" /\ stage = 3)
                 \/ (InErrorHandling /\ hist.errStage = 3)
            ELSE (pc = "handle_error" /\ stage = 3) \/ pc = "done"

C5_Witness ==
  /\ hist.second = "already_exists" /\ use_if_exists
  /\ pc = "failed" /\ outcome = "AlreadyExists"

\* C6: if the cleanup delete of a cluster in ERROR itself fails, the
\* invocation still fails with the cluster-create error.
C6_DeleteFailureDoesNotMaskCreateError ==
  (pc = "failed" /\ hist.deleteRaised) => outcome = "ClusterCreateError"

\* C7: when the invocation fails with the cluster-create error under
\* delete_on_error, the cluster was already absent when the error was raised.
C7_ClusterAbsentWhenCreateErrorRaised ==
  (pc = "failed" /\ outcome = "ClusterCreateError" /\ delete_on_error) =>
    hist.remoteAtRaise = "ABSENT"

C11_PollTimeoutEndsCreateOrAdopt ==
  hist.timedOut =>
    /\ pc = "failed"
    /\ outcome = "PollTimeoutError"
    /\ calls = hist.callsAtTimeout
    /\ calls.diagnose = 0 /\ calls.delete = 0 /\ calls.create = 1

C11_Witness ==
  /\ hist.timedOut /\ pc = "failed" /\ outcome = "PollTimeoutError"
  /\ hist.waited = "creating" /\ slept > 0 /\ remote.state = "CREATING"

\* C12: execute is run twice in sequence, the first run returned a RUNNING
\* cluster, adoption is enabled and no other actor has deleted or created
\* the cluster. Then the second run's create is never accepted (at most
\* one create succeeded over both runs), it is answered AlreadyExists, which
\* is not propagated but followed by one get, and the second run returns
\* the very cluster the first run returned.
Undisturbed == hist.run = 2 /\ ~hist.foreign

C12_SecondCallAdoptsSameCluster ==
  (Undisturbed /\ hist.ret1.state = "RUNNING" /\ use_if_exists) =>
    /\ hist.createdOk <= 1
    /\ pc # "result"
    /\ outcome \in {"none", "returned", "RemoteError"}
    /\ pc \in {"get_existing", "handle_error", "done"} =>
         hist.firstAE /\ calls.create = 1
    /\ pc = "done" =>
         /\ cluster = hist.ret1
         /\ hist.adopted
         /\ calls = [create |-> 1, get |-> 1, diagnose |-> 0, delete |-> 0]

C12_Witness ==
  /\ Undisturbed /\ hist.ret1.state = "RUNNING" /\ use_if_exists
  /\ pc = "done" /\ cluster = hist.ret1 /\ hist.adopted
  /\ hist.createdOk = 1

\* C13: the deleting wait is left towards the second create only after a
\* fetch that raised NotFound; after a fetch that returned a cluster, in
\* whatever state, the wait is still going (or has timed out); a fetch that
\* raised anything else has failed the execute with that error.
C13_DeletingWaitEndsOnlyOnNotFound ==
  /\ attempt = 2 => hist.wdSeen = "NotFound"
  /\ hist.wdSeen \in ClusterStates =>
       \/ pc \in {"wd_loop", "wd_sleep", "wd_fetch"}
       \/ pc = "failed" /\ outcome = "PollTimeoutError"
  /\ hist.wdSeen = "RemoteError" => pc = "failed" /\ outcome = "RemoteError"

C13_Witness ==
  /\ hist.wdSeen = "NotFound" /\ attempt = 2
  /\ slept > Initial /\ pc = "done"

\* C14: the creating wait is never left with a cluster in state CREATING:
\* it sleeps only while the cluster it fetched last is CREATING, and the
\* cluster it hands on is the first fetched one in another state.
C14_CreatingWaitReturnsFirstNonCreating ==
  /\ hist.waitExit # "CREATING"
  /\ pc = "wc_sleep" => cluster.state = "CREATING"
  /\ hist.waitExit # "NONE" =>
       cluster.state = hist.waitExit \/ pc \in {"failed", "raise_error"}

C14_Witness ==
  /\ hist.waitExit = "RUNNING" /\ slept > 0
  /\ pc = "done" /\ cluster.state = "RUNNING"

----------------------------------------------------------------------------
(* SpecJob: DataprocJobBaseOperator.execute / on_kill (l.999-1030) and     *)
(* DataprocSubmitJobOperator.execute / on_kill (l.1876-1913).              *)

JobIds == 1..MaxJobId
JobTerminalStates == {"DONE", "ERROR", "CANCELLED"}

ClusterIdle ==
  /\ pc = "idle" /\ delete_on_error = TRUE /\ use_if_exists = TRUE
  /\ timeout = 0 /\ remote = Absent /\ nextUuid = 1 /\ envSteps = 0
  /\ cluster = NoCluster /\ attempt = 1 /\ stage = 0 /\ opUuid = 0
  /\ time_left = 0 /\ delay = Initial /\ slept = 0 /\ lastSleep = 0
  /\ calls = [create |-> 0, get |-> 0, diagnose |-> 0, delete |-> 0]
  /\ xcom = 0 /\ outcome = "none" /\ hist = NoHist /\ other = NoOther

\* l.964 and l.941: job_error_states defaults to {'ERROR'}; the generic
\* operator has no such parameter
DefaultJobErrorStates == {"ERROR"}

\* hook.wait_for_job(job_id, region, project_id[, timeout]): the states on
\* which it raises are the hook's own, the operator passes it none (l.1018,
\* l.1903-1905)
WaitForJobRaises(state, hookStates) == state \in hookStates

\* l.1002 against l.1908: the base operator stores the job id in
\* self.dataproc_job_id before the submit RPC, the generic one stores it in
\* self.job_id after wait_for_job has returned
StoresIdBeforeSubmit(kind) == kind # "generic"

\* "base" is DataprocJobBaseOperator.execute itself, "engine" one of the six
\* engine operators (Pig, Hive, Spark SQL, Spark, Hadoop, PySpark), whose
\* execute ends with the statement `super().execute(context)` (l.1137,
\* l.1211, l.1283, l.1356, l.1429, l.1545), "generic" is
\* DataprocSubmitJobOperator
JobKinds == {"base", "engine", "generic"}

\* what the operator's execute hands to its caller, given the job id the
\* base or generic execute returns (l.1020, l.1909): the engine operators
\* have no return statement
ReturnedToCaller(kind, id) == IF kind = "engine" THEN 0 ELSE id

\* l.1029 and l.1912: the guard of on_kill
OnKillCancels(kind, field, cok) ==
  IF kind # "generic" THEN field # 0 ELSE field # 0 /\ cok

\* l.1016 and l.1901: if not self.asynchronous
Waits(async) == ~async

InitJob ==
  /\ jpc = "start"
  /\ jkind \in JobKinds
  /\ asynchronous \in BOOLEAN
  /\ cancel_on_kill \in (IF jkind = "generic" THEN BOOLEAN ELSE {TRUE})
  /\ job_error_states \in (IF jkind # "generic"
                             THEN (SUBSET {"ERROR", "CANCELLED"}) \ {{}}
                             ELSE {DefaultJobErrorStates})
  /\ hookErrorStates \in {{"ERROR"}, {"ERROR", "CANCELLED"}}
  /\ jobIdField = 0
  /\ submittedId = 0
  /\ jobState = "NONE"
  /\ jobCalls = [submit |-> 0, wait |-> 0, cancel |-> 0]
  /\ cancelled = {}
  /\ killedAt = ""
  /\ joutcome = "none"
  /\ retval = 0
  /\ ClusterIdle /\ VerbIdle /\ BatchIdle /\ GenIdle /\ EngIdle

JobFail(err) == jpc' = "failed" /\ joutcome' = err

\* l.1001-1003: the base operator builds the job, whose id carries a random
\* suffix, and stores the id; l.1877-1878: the generic operator only makes
\* the hook
JobBuild ==
  /\ jpc = "start"
  /\ jpc' = "submit"
  /\ IF StoresIdBeforeSubmit(jkind)
       THEN \E id \in JobIds : jobIdField' = id
       ELSE jobIdField' = jobIdField
  /\ UNCHANGED <<clusterVars, verbVars, batchVars, genVars, engVars>>
  /\ UNCHANGED <<jkind, asynchronous, cancel_on_kill, job_error_states,
                 hookErrorStates, submittedId, jobState, jobCalls, cancelled,
                 killedAt, joutcome, retval>>

\* l.1004-1007, l.1879-1888: hook.submit_job; job_id is the id of the job
\* object it returns
SubmitJob ==
  /\ jpc = "submit"
  /\ jobCalls' = [jobCalls EXCEPT !.submit = @ + 1]
  /\ \/ /\ \E id \in JobIds :
             /\ jobIdField # 0 => id = jobIdField
             /\ submittedId' = id
        /\ jobState' = "PENDING"
        /\ jpc' = "xcom"
        /\ UNCHANGED joutcome
     \/ /\ JobFail("RemoteError")
        /\ UNCHANGED <<submittedId, jobState>>
  /\ UNCHANGED <<clusterVars, verbVars, batchVars, genVars, engVars>>
  /\ UNCHANGED <<jkind, asynchronous, cancel_on_kill, job_error_states,
                 hookErrorStates, jobIdField, cancelled, killedAt, retval>>

\* l.1010-1016, l.1891-1901: xcom_push of job_conf, then if not
\* self.asynchronous
JobXcomPush ==
  /\ jpc = "xcom"
  /\ xcom' = xcom + 1
  /\ jpc' = IF Waits(asynchronous) THEN "wait" ELSE "return"
  /\ UNCHANGED <<pc, delete_on_error, use_if_exists, timeout, remote, nextUuid,
                 envSteps, cluster, attempt, stage, opUuid, time_left, delay,
                 slept, lastSleep, calls, outcome, hist, other>>
  /\ UNCHANGED <<verbVars, batchVars, genVars, engVars>>
  /\ UNCHANGED <<jkind, asynchronous, cancel_on_kill, job_error_states,
                 hookErrorStates, jobIdField, submittedId, jobState, jobCalls,
                 cancelled, killedAt, joutcome, retval>>

\* l.1018, l.1903-1905: hook.wait_for_job blocks until the job is in a
\* terminal state
WaitForJob ==
  /\ jpc = "wait"
  /\ jobCalls' = [jobCalls EXCEPT !.wait = @ + 1]
  /\ \/ /\ jobState \in JobTerminalStates
        /\ IF WaitForJobRaises(jobState, hookErrorStates)
             THEN JobFail("JobExecutionError")
             ELSE jpc' = "return" /\ joutcome' = joutcome
     \/ JobFail("RemoteError")
  /\ UNCHANGED <<clusterVars, verbVars, batchVars, genVars, engVars>>
  /\ UNCHANGED <<jkind, asynchronous, cancel_on_kill, job_error_states,
                 hookErrorStates, jobIdField, submittedId, jobState, cancelled,
                 killedAt, retval>>

\* l.1020: return job_id; l.1908-1909: self.job_id = job_id; return
\* self.job_id; l.1137: super().execute(context)
ReturnJobId ==
  /\ jpc = "return"
  /\ jobIdField' = IF StoresIdBeforeSubmit(jkind) THEN jobIdField ELSE submittedId
  /\ retval' = ReturnedToCaller(jkind, submittedId)
  /\ jpc' = "done"
  /\ joutcome' = "returned"
  /\ UNCHANGED <<clusterVars, verbVars, batchVars, genVars, engVars>>
  /\ UNCHANGED <<jkind, asynchronous, cancel_on_kill, job_error_states,
                 hookErrorStates, submittedId, jobState, jobCalls, cancelled,
                 killedAt>>

\* l.1024-1030, l.1911-1913: on_kill, called when the task is killed while
\* execute is at any position; execute does not go on after it
OnKill ==
  /\ jpc \in {"start", "submit", "xcom", "wait", "return"}
  /\ killedAt' = jpc
  /\ jpc' = "killed"
  /\ joutcome' = "killed"
  /\ IF OnKillCancels(jkind, jobIdField, cancel_on_kill)
       THEN /\ jobCalls' = [jobCalls EXCEPT !.cancel = @ + 1]
            /\ cancelled' = cancelled \cup {jobIdField}
            /\ jobState' = IF submittedId = jobIdField
                                /\ jobState \in {"PENDING", "RUNNING", "ATTEMPT_FAILURE"}
                             THEN "CANCEL_PENDING" ELSE jobState
       ELSE UNCHANGED <<jobCalls, cancelled, jobState>>
  /\ UNCHANGED <<clusterVars, verbVars, batchVars, genVars, engVars>>
  /\ UNCHANGED <<jkind, asynchronous, cancel_on_kill, job_error_states,
                 hookErrorStates, jobIdField, submittedId, retval>>

\* The remote side runs the job; other actors may cancel it.
JobEnvironment ==
  /\ jpc \notin {"done", "failed", "killed"}
  /\ \/ jobState = "PENDING" /\ jobState' = "RUNNING"
     \/ jobState = "RUNNING" /\ jobState' \in {"DONE", "ERROR", "ATTEMPT_FAILURE"}
     \/ jobState = "ATTEMPT_FAILURE" /\ jobState' \in {"PENDING", "ERROR"}
     \/ jobState \in {"PENDING", "RUNNING"} /\ jobState' = "CANCEL_PENDING"
     \/ jobState = "CANCEL_PENDING" /\ jobState' = "CANCELLED"
  /\ UNCHANGED <<clusterVars, verbVars, batchVars, genVars, engVars>>
  /\ UNCHANGED <<jpc, jkind, asynchronous, cancel_on_kill, job_error_states,
                 hookErrorStates, jobIdField, submittedId, jobCalls, cancelled,
                 killedAt, joutcome, retval>>

NextJob ==
  \/ JobBuild
  \/ SubmitJob
  \/ JobXcomPush
  \/ WaitForJob
  \/ ReturnJobId
  \/ OnKill
  \/ JobEnvironment

SpecJob == InitJob /\ [][NextJob]_vars

----------------------------------------------------------------------------
(* Claims about the job-submit operators (SpecJob).                        *)

\* C8: for a job submitted with waiting enabled (and cancel_on_kill for the
\* generic operator), an on_kill that fires after the submit RPC has returned
\* and before the wait has finished issues a cancel-job RPC for that job's id.
C8_OnKillDuringWaitCancelsJob ==
  (/\ killedAt \in {"xcom", "wait"}
   /\ ~asynchronous
   /\ jkind = "generic" => cancel_on_kill)
    => submittedId \in cancelled

\* C9: with waiting enabled, submit fails with the job-execution error
\* exactly when the job's terminal state is in the configured
\* job_error_states, and returns normally for a terminal state outside it.
C9_FailsExactlyOnConfiguredErrorStates ==
  (~asynchronous /\ joutcome \in {"returned", "JobExecutionError"}) =>
    /\ jobState \in JobTerminalStates
    /\ joutcome = "JobExecutionError" <=> jobState \in job_error_states

----------------------------------------------------------------------------
(* The verbs that issue one RPC: cluster update (l.2003-2029), cluster     *)
(* scale (l.774-801), cluster delete (l.861-875), workflow template create *)
(* (l.1602-1616), instantiate (l.1690-1705) and instantiate inline         *)
(* (l.1775-1788).                                                          *)

VerbKinds == {"update", "scale", "delete", "template", "instantiate",
              "instantiate_inline"}

\* what a hook call can raise
RemoteErrors == {"AlreadyExists", "NotFound", "RemoteError"}

\* l.783-791, l.2006-2014: self.xcom_push(context, key="cluster_conf", ...)
PushesRecordUpdateOnly(kind) == kind = "update"
PushesRecord(kind) == kind \in {"update", "scale"}

\* l.1606: hook.create_workflow_template returns the template itself, every
\* other RPC here returns an operation on which .result() is called
ReturnsOperationNever(kind) == FALSE
ReturnsOperation(kind) == kind # "template"

\* l.1615: except AlreadyExists, the only handler of these verbs
CaughtInTemplateCreateAnything(err) == TRUE
CaughtInTemplateCreate(err) == err = "AlreadyExists"

\* l.745-772: None for an empty argument, a raise when the argument does not
\* parse to a positive number of seconds
DecommissionTimeoutRaises(d) == d = "invalid"

InitVerb ==
  /\ vpc = "start"
  /\ vkind \in VerbKinds
  /\ vdecom \in (IF vkind = "scale" THEN {"absent", "valid", "invalid"}
                                    ELSE {"absent"})
  /\ vop = "none" /\ vcalls = 0 /\ vxcom = 0 /\ vgot = FALSE
  /\ vraised = "none" /\ voutcome = "none"
  /\ ClusterIdle /\ JobIdle /\ BatchIdle /\ GenIdle /\ EngIdle

VerbFail(err) == vpc' = "failed" /\ voutcome' = err

\* the hook is built and, by update and scale, the record is pushed
VerbBegin ==
  /\ vpc = "start"
  /\ vxcom' = IF PushesRecord(vkind) THEN vxcom + 1 ELSE vxcom
  /\ vpc' = IF vkind = "scale" THEN "args" ELSE "rpc"
  /\ UNCHANGED <<clusterVars, jobVars, batchVars, genVars, engVars>>
  /\ UNCHANGED <<vkind, vdecom, vop, vcalls, vgot, vraised, voutcome>>

\* l.797: the arguments of hook.update_cluster are evaluated, among them
\* the property _graceful_decommission_timeout_object
VerbArgs ==
  /\ vpc = "args"
  /\ IF DecommissionTimeoutRaises(vdecom)
       THEN VerbFail("AirflowException")
       ELSE vpc' = "rpc" /\ voutcome' = voutcome
  /\ UNCHANGED <<clusterVars, jobVars, batchVars, genVars, engVars>>
  /\ UNCHANGED <<vkind, vdecom, vop, vcalls, vxcom, vgot, vraised>>

\* the one mutation RPC of the verb
VerbRpc ==
  /\ vpc = "rpc"
  /\ vcalls' = vcalls + 1
  /\ \/ /\ IF ReturnsOperation(vkind)
             THEN /\ vop' = "running" /\ vpc' = "result"
                  /\ UNCHANGED <<vgot, voutcome>>
             ELSE /\ vgot' = TRUE /\ vpc' = "done" /\ voutcome' = "returned"
                  /\ vop' = vop
        /\ UNCHANGED vraised
     \/ /\ \E err \in RemoteErrors :
             /\ vraised' = err
             /\ IF vkind = "template" /\ CaughtInTemplateCreate(err)
                  THEN vpc' = "done" /\ voutcome' = "returned"
                  ELSE VerbFail(err)
        /\ UNCHANGED <<vop, vgot>>
  /\ UNCHANGED <<clusterVars, jobVars, batchVars, genVars, engVars>>
  /\ UNCHANGED <<vkind, vdecom, vxcom>>

\* the control plane finishes the long-running operation, well or badly
VerbOperationEnds ==
  /\ vop = "running"
  /\ vop' \in {"done", "failed"}
  /\ UNCHANGED <<clusterVars, jobVars, batchVars, genVars, engVars>>
  /\ UNCHANGED <<vpc, vkind, vdecom, vcalls, vxcom, vgot, vraised, voutcome>>

\* operation.result(): blocks until the operation has ended, raises its
\* error if it failed
VerbResult ==
  /\ vpc = "result"
  /\ vop \in {"done", "failed"}
  /\ IF vop = "done"
       THEN /\ vgot' = TRUE /\ vpc' = "done" /\ voutcome' = "returned"
            /\ UNCHANGED vraised
       ELSE /\ vraised' = "OperationError" /\ VerbFail("OperationError")
            /\ UNCHANGED vgot
  /\ UNCHANGED <<clusterVars, jobVars, batchVars, genVars, engVars>>
  /\ UNCHANGED <<vkind, vdecom, vop, vcalls, vxcom>>

----------------------------------------------------------------------------
(* SpecBatch: DataprocCreateBatchOperator.execute / on_kill (l.2099-2135). *)

BatchStates == {"PENDING", "RUNNING", "SUCCEEDED", "FAILED", "CANCELLED"}
BatchIds == {0, 1}

\* l.2119: except AlreadyExists covers hook.create_batch and
\* hook.wait_for_operation
CaughtInBatchCreate(err) == err = "AlreadyExists"

\* l.2121-2123: with no batch id the handler raises, else it fetches
OnBatchAlreadyExistsPropagates(id) == "raise"
OnBatchAlreadyExists(id) == IF id = 0 THEN "raise_no_id" ELSE "get_batch"

\* l.2131: return Batch.to_dict(result), no look at result.state
ReturnsFetchedBatchUnlessFailed(state) == state # "FAILED"
ReturnsFetchedBatch(state) == TRUE

\* l.2134: if self.operation
OnKillCancelsOperationNever(op) == FALSE
OnKillCancelsOperation(op) == op # "none"

InitBatch ==
  /\ bpc = "start"
  /\ region \in BOOLEAN
  /\ batch_id \in BatchIds
  /\ operation = "none"
  /\ bop = "none"
  /\ bremote \in {"ABSENT"} \cup BatchStates
  /\ bcalls = [create |-> 0, wait |-> 0, get |-> 0, cancel |-> 0]
  /\ braised = "none" /\ bresult = "none" /\ bkilledAt = ""
  /\ bcancelAt = "none" /\ boutcome = "none"
  /\ ClusterIdle /\ JobIdle /\ VerbIdle /\ GenIdle /\ EngIdle

BatchFail(err) == bpc' = "failed" /\ boutcome' = err

\* l.2119-2122: what the handler does with an AlreadyExists
BatchHandleAlreadyExists ==
  IF OnBatchAlreadyExists(batch_id) = "get_batch"
    THEN bpc' = "get" /\ boutcome' = boutcome
    ELSE IF OnBatchAlreadyExists(batch_id) = "raise_no_id"
           THEN BatchFail("AirflowException")
           ELSE BatchFail("AlreadyExists")

\* l.2102-2105
BatchBegin ==
  /\ bpc = "start"
  /\ IF region THEN bpc' = "create" /\ boutcome' = boutcome
               ELSE BatchFail("AirflowException")
  /\ UNCHANGED <<clusterVars, jobVars, verbVars, genVars, engVars>>
  /\ UNCHANGED <<region, batch_id, operation, bop, bremote, bcalls, braised,
                 bresult, bkilledAt, bcancelAt>>

\* l.2107-2116: self.operation = hook.create_batch(...)
CreateBatch ==
  /\ bpc = "create"
  /\ bcalls' = [bcalls EXCEPT !.create = @ + 1]
  /\ \/ /\ bremote = "ABSENT"
        /\ operation' = "set"
        /\ bop' = "running"
        /\ bremote' = "PENDING"
        /\ bpc' = "wait"
        /\ UNCHANGED <<braised, boutcome>>
     \/ /\ bremote # "ABSENT"
        /\ braised' = "AlreadyExists"
        /\ IF CaughtInBatchCreate("AlreadyExists")
             THEN BatchHandleAlreadyExists
             ELSE BatchFail("AlreadyExists")
        /\ UNCHANGED <<operation, bop, bremote>>
     \/ /\ \E err \in RemoteErrors \ {"AlreadyExists"} :
             braised' = err /\ BatchFail(err)
        /\ UNCHANGED <<operation, bop, bremote>>
  /\ UNCHANGED <<clusterVars, jobVars, verbVars, genVars, engVars>>
  /\ UNCHANGED <<region, batch_id, bresult, bkilledAt, bcancelAt>>

\* l.2117: result = hook.wait_for_operation(timeout, operation); it returns
\* once the operation has ended and raises what the operation failed with
WaitForOperation ==
  /\ bpc = "wait"
  /\ bop \in {"done", "failed", "cancelled"}
  /\ bcalls' = [bcalls EXCEPT !.wait = @ + 1]
  /\ IF bop = "done"
       THEN /\ bresult' = bremote
            /\ bpc' = "return"
            /\ UNCHANGED <<braised, boutcome>>
       ELSE /\ \E err \in {"AlreadyExists", "OperationError"} :
                 /\ braised' = err
                 /\ IF CaughtInBatchCreate(err)
                      THEN BatchHandleAlreadyExists
                      ELSE BatchFail(err)
            /\ UNCHANGED bresult
  /\ UNCHANGED <<clusterVars, jobVars, verbVars, genVars, engVars>>
  /\ UNCHANGED <<region, batch_id, operation, bop, bremote, bkilledAt,
                 bcancelAt>>

\* l.2123-2130: result = hook.get_batch(batch_id=self.batch_id, ...)
GetBatch ==
  /\ bpc = "get"
  /\ bcalls' = [bcalls EXCEPT !.get = @ + 1]
  /\ \/ /\ bremote # "ABSENT"
        /\ IF ReturnsFetchedBatch(bremote)
             THEN bresult' = bremote /\ bpc' = "return" /\ boutcome' = boutcome
             ELSE BatchFail("BatchStateError") /\ bresult' = bresult
        /\ UNCHANGED braised
     \/ /\ bremote = "ABSENT"
        /\ braised' = "NotFound" /\ BatchFail("NotFound")
        /\ UNCHANGED bresult
     \/ /\ braised' = "RemoteError" /\ BatchFail("RemoteError")
        /\ UNCHANGED bresult
  /\ UNCHANGED <<clusterVars, jobVars, verbVars, genVars, engVars>>
  /\ UNCHANGED <<region, batch_id, operation, bop, bremote, bkilledAt,
                 bcancelAt>>

\* l.2131: return Batch.to_dict(result)
BatchReturn ==
  /\ bpc = "return"
  /\ bpc' = "done"
  /\ boutcome' = "returned"
  /\ UNCHANGED <<clusterVars, jobVars, verbVars, genVars, engVars>>
  /\ UNCHANGED <<region, batch_id, operation, bop, bremote, bcalls, braised,
                 bresult, bkilledAt, bcancelAt>>

\* l.2133-2135: on_kill, at any point of a running execute
BatchOnKill ==
  /\ bpc \in {"start", "create", "wait", "get", "return"}
  /\ bkilledAt' = bpc
  /\ bpc' = "killed"
  /\ IF OnKillCancelsOperation(operation)
       THEN /\ bcalls' = [bcalls EXCEPT !.cancel = @ + 1]
            /\ bcancelAt' = bop
            /\ bop' = IF bop = "running" THEN "cancelled" ELSE bop
       ELSE UNCHANGED <<bcalls, bcancelAt, bop>>
  /\ UNCHANGED <<clusterVars, jobVars, verbVars, genVars, engVars>>
  /\ UNCHANGED <<region, batch_id, operation, bremote, braised, bresult,
                 boutcome>>

\* The control plane: the create operation ends, the batch makes progress.
BatchEnvironment ==
  /\ bpc \notin {"done", "failed", "killed"}
  /\ \/ /\ bop = "running"
        /\ \/ bop' = "done" /\ bremote' \in {"RUNNING", "SUCCEEDED", "FAILED"}
           \/ bop' = "failed" /\ bremote' \in {bremote, "ABSENT"}
     \/ /\ bop # "running"
        /\ bremote \in {"PENDING", "RUNNING"}
        /\ bremote' \in {"SUCCEEDED", "FAILED", "CANCELLED"}
        /\ bop' = bop
  /\ UNCHANGED <<clusterVars, jobVars, verbVars, genVars, engVars>>
  /\ UNCHANGED <<bpc, region, batch_id, operation, bcalls, braised, bresult,
                 bkilledAt, bcancelAt, boutcome>>

NextBatch ==
  \/ BatchBegin
  \/ CreateBatch
  \/ WaitForOperation
  \/ GetBatch
  \/ BatchReturn
  \/ BatchOnKill
  \/ BatchEnvironment

SpecBatch == InitBatch /\ [][NextBatch]_vars

\* Every verb that handles a remote error, and the single-RPC verbs: one
\* invocation of one of them.
NextVerbs ==
  \/ XcomPush
  \/ CreateCluster
  \/ OperationResult
  \/ GetExisting
  \/ HandleErrorState
  \/ DiagnoseCluster
  \/ DeleteCluster
  \/ RaiseErrorState
  \/ WaitCreatingFetch
  \/ WaitCreatingLoop
  \/ Sleep
  \/ WaitDeletingLoop
  \/ WaitDeletingFetch
  \/ Environment
  \/ VerbBegin
  \/ VerbArgs
  \/ VerbRpc
  \/ VerbOperationEnds
  \/ VerbResult
  \/ BatchBegin
  \/ CreateBatch
  \/ WaitForOperation
  \/ GetBatch
  \/ BatchReturn
  \/ BatchOnKill
  \/ BatchEnvironment

InitVerbs == InitCluster \/ InitVerb \/ InitBatch

SpecVerbs == InitVerbs /\ [][NextVerbs]_vars

----------------------------------------------------------------------------
(* Claims about the correlation record and about error handling across the *)
(* verbs (SpecVerbs), and about the batch operator (SpecBatch).            *)

\* C16: cluster create, cluster update and cluster scale push the record
\* {cluster name, region, project} exactly once, before their first remote
\* call, so that it is there when the verb has ended, well or badly.
C16_RecordPushedOnceBeforeFirstCall ==
  /\ xcom <= 1 /\ vxcom <= 1
  /\ calls.create + calls.get + calls.diagnose + calls.delete > 0 => xcom = 1
  /\ pc \in {"done", "failed"} => xcom = 1
  /\ vkind \in {"update", "scale"} =>
       /\ vcalls > 0 => vxcom = 1
       /\ vpc \in {"done", "failed"} => vxcom = 1

C16_Witness ==
  /\ vkind = "scale" /\ vpc = "failed" /\ voutcome = "AirflowException"
  /\ vcalls = 0 /\ vxcom = 1

\* cluster create: an error of a remote call ends execute with an error,
\* but for the NotFound of the deleting wait and the AlreadyExists after
\* which the existing cluster is fetched
ClusterSwallowsNothing ==
  /\ hist.wdSeen = "RemoteError" => pc = "failed"
  /\ (hist.firstAE /\ pc # "failed") =>
       pc = "get_existing" \/ (hist.adopted /\ cluster # NoCluster)

\* batch create: the same, the AlreadyExists being recovered by get_batch
BatchSwallowsNothing ==
  braised # "none" =>
    \/ bpc = "failed"
    \/ /\ braised = "AlreadyExists"
       /\ \/ bpc = "get"
          \/ bpc = "killed" /\ bkilledAt \in {"get", "return"}
          \/ bpc \in {"return", "done"} /\ bresult \in BatchStates

\* C17 as stated: whenever a remote call of a verb raised, the verb raises
\* to its caller; the only exceptions are the NotFound of the deleting wait
\* and an AlreadyExists after which the existing resource is fetched and
\* returned. No verb completes normally, without a resource, after a remote
\* error.
C17_NoRemoteErrorSwallowed ==
  /\ ClusterSwallowsNothing
  /\ BatchSwallowsNothing
  /\ vraised # "none" => vpc = "failed" /\ voutcome = vraised

\* C17 amended: as above, with a third exception: workflow template create
\* catches AlreadyExists and completes normally without having fetched the
\* existing template.
C17_OnlyTemplateCreateSwallowsAlreadyExists ==
  /\ ClusterSwallowsNothing
  /\ BatchSwallowsNothing
  /\ vraised # "none" =>
       \/ vpc = "failed" /\ voutcome = vraised
       \/ /\ vkind = "template" /\ vraised = "AlreadyExists"
          /\ vpc = "done" /\ voutcome = "returned" /\ ~vgot /\ vcalls = 1

C17_Witness ==
  /\ vkind = "template" /\ vraised = "AlreadyExists"
  /\ vpc = "done" /\ voutcome = "returned" /\ ~vgot

\* cluster create (first create call): use_if_exists decides
ClusterAdoptsOnOptIn ==
  /\ (hist.firstAE /\ ~use_if_exists) =>
       pc = "failed" /\ outcome = "AlreadyExists" /\ calls.get = 0
  /\ (hist.firstAE /\ use_if_exists) => pc = "get_existing" \/ calls.get >= 1

\* C18 as stated: for cluster, batch and workflow template create, an
\* AlreadyExists of the create call is recovered by adopting only when the
\* caller opted in; without an opt-in (batch and template create have no
\* such parameter) it is propagated.
C18_AlreadyExistsPropagatedWithoutOptIn ==
  /\ ClusterAdoptsOnOptIn
  /\ braised = "AlreadyExists" => bpc = "failed" /\ boutcome = "AlreadyExists"
  /\ (vkind = "template" /\ vraised = "AlreadyExists") =>
       vpc = "failed" /\ voutcome = "AlreadyExists"

\* C18 amended: only cluster create has the opt-in; batch create never
\* propagates AlreadyExists (it fetches the batch by its id, or fails for
\* want of an id), template create always completes normally on it.
C18_OnlyClusterCreateHasOptIn ==
  /\ ClusterAdoptsOnOptIn
  /\ braised = "AlreadyExists" =>
       /\ boutcome # "AlreadyExists"
       /\ batch_id = 0 =>
            bpc = "failed" /\ boutcome = "AirflowException" /\ bcalls.get = 0
       /\ batch_id # 0 => bpc = "get" \/ bkilledAt = "get" \/ bcalls.get = 1
  /\ (vkind = "template" /\ vraised = "AlreadyExists") =>
       vpc = "done" /\ voutcome = "returned"

C18_Witness ==
  /\ braised = "AlreadyExists" /\ bcalls.wait = 0 /\ bcalls.get = 1
  /\ bpc = "done" /\ bresult \in BatchStates

\* C19: batch create issues one create and returns, when not through the
\* AlreadyExists handler, only after the operation has completed; after an
\* AlreadyExists of the create or of the wait it fetches the batch by the
\* batch id once and returns it in whatever state it is, and issues no
\* further create and no cancel or delete.
C19_BatchCreateOrGet ==
  /\ bcalls.create <= 1 /\ bcalls.get <= 1
  /\ bkilledAt = "" => bcalls.cancel = 0
  /\ (bpc \in {"return", "done"} /\ bcalls.get = 0) =>
       bop = "done" /\ bcalls.wait = 1
  /\ (bpc = "get" \/ bcalls.get = 1) => batch_id # 0 /\ bcalls.create = 1
  /\ (bcalls.get = 1 /\ bpc = "failed") =>
       boutcome \in {"NotFound", "RemoteError"}
  /\ (bcalls.get = 1 /\ bpc \in {"return", "done"}) => bresult \in BatchStates
  /\ boutcome # "AlreadyExists"

C19_Witness ==
  /\ bcalls.wait = 1 /\ bcalls.get = 1 /\ bcalls.create = 1
  /\ bpc = "done" /\ bresult = "FAILED"

\* C20 as stated: on_kill calls cancel on the create operation when it is
\* in flight, and never when no handle was obtained yet or when the
\* operation has already completed.
C20_OnKillCancelsOnlyInFlightOperation ==
  /\ bkilledAt \in {"start", "create"} => bcalls.cancel = 0
  /\ bcalls.cancel > 0 => bcancelAt = "running"
  /\ (bkilledAt = "wait" /\ bcancelAt = "none") => operation = "none"

\* C20 amended: on_kill calls cancel exactly when a handle has been
\* obtained, whether the operation is still in flight or has ended.
C20_OnKillCancelsWheneverHandleHeld ==
  /\ bcalls.cancel <= 1
  /\ bcalls.cancel = 1 <=> (bkilledAt # "" /\ operation = "set")
  /\ bkilledAt \in {"start", "create"} => bcalls.cancel = 0
  /\ bkilledAt = "wait" => bcalls.cancel = 1
  /\ bcalls.cancel = 1 => bcancelAt \in {"running", "done", "failed"}

C20_Witness ==
  /\ bkilledAt = "wait" /\ bcancelAt = "running" /\ bcalls.cancel = 1
  /\ bop = "cancelled"

\* C21: cluster update, scale, delete, template instantiate and
\* instantiate inline issue one mutation RPC, never a second; they return
\* normally only once the operation that RPC returned has completed, and
\* fail when that operation has failed.
C21_OneRpcThenBlockOnOperation ==
  vkind \in {"update", "scale", "delete", "instantiate", "instantiate_inline"} =>
    /\ vcalls <= 1
    /\ vpc \in {"result", "done"} => vcalls = 1
    /\ vpc = "done" => vop = "done" /\ vgot /\ voutcome = "returned"
    /\ (vop = "failed" /\ vpc \notin {"result"}) =>
         vpc = "failed" /\ voutcome = "OperationError"
    /\ (vpc = "failed" /\ vcalls = 0) => vkind = "scale" /\ vdecom = "invalid"

C21_Witness ==
  /\ vkind = "delete" /\ vcalls = 1 /\ vop = "failed"
  /\ vpc = "failed" /\ voutcome = "OperationError"

----------------------------------------------------------------------------
(* Further claims about the job-submit operators (SpecJob).                *)

\* C22: for every job kind, a submit with waiting enabled that has seen
\* the job end in a state that is not an error state hands the id of the
\* submitted job to its caller.
C22_SubmitReturnsJobId ==
  (~asynchronous /\ jpc = "done") =>
    /\ jobState \in JobTerminalStates
    /\ retval = submittedId
    /\ retval # 0

\* C23: with asynchronous set, submit issues no wait_for_job call at all,
\* and returns, after one submit RPC and the push of the record, the id of
\* the submitted job whatever the job's state.
C23_AsynchronousReturnsIdWithoutWaiting ==
  asynchronous =>
    /\ jobCalls.wait = 0
    /\ jpc # "wait"
    /\ jpc = "done" =>
         /\ jobCalls.submit = 1 /\ xcom = 1
         /\ retval = submittedId /\ retval # 0

----------------------------------------------------------------------------
(* Further claims about DataprocCreateClusterOperator.execute.             *)

\* C25 as stated: on every path a cluster that execute returns is neither
\* in state CREATING nor in state DELETING.
C25_ReturnedClusterIsSettled ==
  pc = "done" => cluster.state \notin {"CREATING", "DELETING"}

\* C25 amended: a returned cluster is never CREATING; it is DELETING only
\* when another actor started deleting it during the invocation, after the
\* one inspection for CREATING and DELETING (l.648-657): the creating wait
\* and the re-issued create are followed by the ERROR check alone.
C25_ReturnedClusterIsSettledUnlessDeletedMeanwhile ==
  pc = "done" =>
    /\ cluster.state # "CREATING"
    /\ ~hist.foreign => cluster.state # "DELETING"
    /\ cluster.state = "DELETING" => stage \in {2, 3}

C25_Witness ==
  /\ pc = "done" /\ cluster.state = "DELETING"
  /\ hist.waited = "creating" /\ stage = 2 /\ hist.foreign

----------------------------------------------------------------------------
(* Claims about two concurrent invocations of cluster create (SpecConc).   *)

NoForeign == ~hist.foreign /\ ~other.hist.foreign
BothDone == pc = "done" /\ other.pc = "done"
CreatesAccepted == hist.createdOk + other.hist.createdOk
DeletesIssued == calls.delete + other.calls.delete

\* C24 as stated: with adoption enabled and no third actor, at most one
\* create RPC of the two invocations is accepted, neither invocation fails
\* with the AlreadyExists the other one's create brought about, and when
\* both return they return the same cluster.
C24_ConcurrentCreatesAreSafe ==
  NoForeign =>
    /\ CreatesAccepted <= 1
    /\ outcome # "AlreadyExists" /\ other.outcome # "AlreadyExists"
    /\ BothDone => cluster.uuid = other.cluster.uuid

\* C24 amended: an AlreadyExists answered to the first create of an
\* invocation is never propagated, the one answered to the create
\* re-issued after the deleting wait is; a second create is accepted only
\* after an invocation has issued a delete or has re-issued its create
\* after the deleting wait; when both return they return the same cluster.
C24_OnlyReissuedCreateFailsOnTheOthersCreate ==
  NoForeign =>
    /\ outcome = "AlreadyExists" => hist.second = "already_exists"
    /\ other.outcome = "AlreadyExists" => other.hist.second = "already_exists"
    /\ CreatesAccepted > 1 =>
         DeletesIssued > 0 \/ attempt = 2 \/ other.attempt = 2
    /\ BothDone => cluster.uuid = other.cluster.uuid

C24_Witness ==
  /\ NoForeign
  /\ pc = "failed" /\ outcome = "AlreadyExists"
  /\ hist.second = "already_exists"
  /\ other.pc = "done" /\ other.hist.second = "created"

----------------------------------------------------------------------------
(* ClusterGenerator: __init__ (l.169-252) and make (l.312-420).  Image     *)
(* parameters are modelled by whether they are set; the properties map by  *)
(* the set of its keys.                                                    *)

\* the key make() injects for a single-node cluster (l.389)
ZeroWorkersKey == "dataproc:dataproc.allow.zero.workers"
\* keys the caller's properties map is drawn from
PropertyKeys == {"spark:spark.executor.cores", ZeroWorkersKey}
\* values of num_workers and num_preemptible_workers tried
WorkerCounts == {0, 2}
PreemptibleCounts == {0, 1}
\* properties arguments tried: None, the empty map, and every other map
PropertiesArgs ==
  {NoProperties} \cup {[given |-> TRUE, keys |-> k] : k \in SUBSET PropertyKeys}

\* self.single_node = num_workers == 0 (l.239)
single_node == num_workers = 0

InitRaisesImageConflictsOnly(ci, cif, iv, sn, npw) ==
  (ci /\ iv) \/ (cif /\ iv) \/ (cif /\ ci)

\* the four checks of __init__ (l.241-251), each raising ValueError
InitRaises(ci, cif, iv, sn, npw) ==
  \/ ci /\ iv
  \/ cif /\ iv
  \/ cif /\ ci
  \/ sn /\ npw > 0

\* self.properties = properties or {} (l.219): keys of the map kept
PropertiesOrEmpty(arg) ==
  IF arg.given /\ arg.keys # {} THEN arg.keys ELSE {}

\* `properties or {}` yields the caller's own map object when it is truthy
\* (non-empty), a fresh map otherwise (l.219)
SharesCallerMap(arg) == arg.given /\ arg.keys # {}

\* which image source _build_cluster_data emits (l.362-383)
ImageSource(iv, ci, cif) ==
  IF iv THEN "image_version"
  ELSE IF ci THEN "custom_image"
  ELSE IF cif THEN "custom_image_family"
  ELSE "default"

LifecycleConfigBothAutoDeletes(idle, at, ttl) ==
  (IF idle THEN {"idle_delete_ttl"} ELSE {})
    \cup (IF at THEN {"auto_delete_time"} ELSE {})
    \cup (IF ttl THEN {"auto_delete_ttl"} ELSE {})

\* _build_lifecycle_config (l.298-310): the keys it stores; an `if` for
\* idle_delete_ttl, then `if` auto_delete_time `elif` auto_delete_ttl
LifecycleConfig(idle, at, ttl) ==
  (IF idle THEN {"idle_delete_ttl"} ELSE {})
    \cup (IF at THEN {"auto_delete_time"}
          ELSE IF ttl THEN {"auto_delete_ttl"} ELSE {})

\* _build_gce_cluster_config raises AirflowException (l.282-284)
GceConfigRaises(ip, sub) == ip /\ ~sub

----------------------------------------------------------------------------
(* Duration strings and the two parsers.  A string is a sequence of        *)
(* characters.                                                             *)

\* longest duration string tried
MaxLen == 3
Digits == {"0", "1", "2"}
\* characters the strings are drawn from: digits, the four units, a
\* character that is neither, and the newline `$` tolerates at the end
DurationChars == Digits \cup {"s", "m", "h", "d", "x", "\n"}
DurationStrings == UNION {[1..n -> DurationChars] : n \in 0..MaxLen}

DigitValue(c) == CASE c = "0" -> 0 [] c = "1" -> 1 [] c = "2" -> 2

\* int(group) / float(group) of a run of decimal digits
RECURSIVE IntOf(_)
IntOf(ds) ==
  IF ds = <<>> THEN 0
  ELSE 10 * IntOf(SubSeq(ds, 1, Len(ds) - 1)) + DigitValue(ds[Len(ds)])

\* re.match(r"^(\d+)([units])$", s): `$` matches at the end of the string
\* and also just before a newline that ends the string
ReMatch(s, units) ==
  LET b == IF Len(s) > 0 /\ s[Len(s)] = "\n"
           THEN SubSeq(s, 1, Len(s) - 1) ELSE s
  IN IF /\ Len(b) >= 2
        /\ b[Len(b)] \in units
        /\ \A i \in 1..(Len(b) - 1) : b[i] \in Digits
     THEN [matched |-> TRUE, group1 |-> SubSeq(b, 1, Len(b) - 1),
           group2 |-> b[Len(b)]]
     ELSE [matched |-> FALSE, group1 |-> <<>>, group2 |-> ""]

UnitSecondsHourAsMinute(u) ==
  CASE u = "s" -> 1 [] u = "m" -> 60 [] u = "h" -> 60 [] u = "d" -> 86400

\* seconds in one unit: int(val), timedelta(minutes=val), timedelta(hours=val),
\* timedelta(days=val) followed by total_seconds() (l.753-762, l.258-261)
UnitSeconds(u) ==
  CASE u = "s" -> 1 [] u = "m" -> 60 [] u = "h" -> 3600 [] u = "d" -> 86400

DurationError == [kind |-> "error", seconds |-> 0]
DurationAbsent == [kind |-> "absent", seconds |-> 0]

\* ClusterGenerator._get_init_action_timeout (l.254-266)
GetInitActionTimeout(s) ==
  LET match == ReMatch(s, {"s", "m"})
  IN IF match.matched
     THEN [kind |-> "seconds",
           seconds |-> IntOf(match.group1) * UnitSeconds(match.group2)]
     ELSE DurationError

\* DataprocScaleClusterOperator._graceful_decommission_timeout_object
\* (l.745-772): an empty field gives None; `if not timeout` raises for no
\* match and for a match worth zero seconds
GracefulDecommissionTimeoutObject(s) ==
  IF s = <<>> THEN DurationAbsent
  ELSE LET match == ReMatch(s, {"s", "m", "d", "h"})
           secs == IF match.matched
                   THEN IntOf(match.group1) * UnitSeconds(match.group2)
                   ELSE 0
       IN IF ~match.matched \/ secs = 0
          THEN DurationError
          ELSE [kind |-> "seconds", seconds |-> secs]

----------------------------------------------------------------------------
(* The generator as a machine: Construct is __init__, Make is make().      *)

\* init_action_timeout values the generator is built with
InitActionTimeouts == {<<"1", "m">>, <<"x">>}

InitGenerator ==
  /\ ClusterIdle /\ JobIdle /\ VerbIdle /\ BatchIdle
  /\ gpc = "new"
  /\ custom_image \in BOOLEAN /\ custom_image_family \in BOOLEAN
  /\ image_version \in BOOLEAN
  /\ num_workers \in WorkerCounts
  /\ num_preemptible_workers \in PreemptibleCounts
  /\ internal_ip_only \in BOOLEAN /\ subnetwork_uri \in BOOLEAN
  /\ init_actions_uris \in BOOLEAN
  /\ init_action_timeout \in InitActionTimeouts
  /\ idle_delete_ttl \in BOOLEAN /\ auto_delete_time \in BOOLEAN
  /\ auto_delete_ttl \in BOOLEAN
  /\ EngIdle
  /\ graceful_decommission_timeout = <<>>
  /\ properties_arg \in PropertiesArgs
  /\ caller_map = properties_arg.keys
  /\ properties = {}
  /\ cluster_data = NoConfig /\ graised = "none" /\ parsed = NoParse

\* __init__ (l.169-252)
Construct ==
  /\ gpc = "new"
  /\ properties' = PropertiesOrEmpty(properties_arg)
  /\ IF InitRaises(custom_image, custom_image_family, image_version,
                   single_node, num_preemptible_workers)
     THEN gpc' = "rejected" /\ graised' = "ValueError"
     ELSE gpc' = "built" /\ graised' = "none"
  /\ UNCHANGED <<custom_image, custom_image_family, image_version,
                 num_workers, num_preemptible_workers, internal_ip_only,
                 subnetwork_uri, init_actions_uris, init_action_timeout,
                 idle_delete_ttl, auto_delete_time, auto_delete_ttl,
                 graceful_decommission_timeout, properties_arg, caller_map,
                 cluster_data, parsed>>
  /\ UNCHANGED <<clusterVars, jobVars, verbVars, batchVars, engVars>>

\* make() = _build_cluster_data (l.312-420): the gce config is built
\* first (l.386), then the zero-worker key is stored into self.properties
\* (l.388-389), then the init-action timeout is parsed (l.398-403)
Make ==
  /\ gpc = "built"
  /\ IF GceConfigRaises(internal_ip_only, subnetwork_uri)
     THEN /\ gpc' = "failed" /\ graised' = "AirflowException"
          /\ UNCHANGED <<properties, caller_map, cluster_data>>
     ELSE LET injected == IF single_node
                          THEN properties \cup {ZeroWorkersKey}
                          ELSE properties
              t == GetInitActionTimeout(init_action_timeout)
          IN /\ properties' = injected
             /\ caller_map' = IF SharesCallerMap(properties_arg)
                              THEN injected ELSE caller_map
             /\ IF init_actions_uris /\ t.kind = "error"
                THEN /\ gpc' = "failed" /\ graised' = "AirflowException"
                     /\ UNCHANGED cluster_data
                ELSE /\ gpc' = "made" /\ graised' = "none"
                     /\ cluster_data' =
                          [image |-> ImageSource(image_version, custom_image,
                                                 custom_image_family),
                           properties |-> injected,
                           secondary |-> num_preemptible_workers > 0,
                           worker_image |-> /\ ~image_version
                                            /\ (custom_image
                                                \/ custom_image_family)
                                            /\ ~single_node,
                           execution_timeout |-> IF init_actions_uris
                                                 THEN t.seconds ELSE -1,
                           lifecycle_config |->
                             LifecycleConfig(idle_delete_ttl, auto_delete_time,
                                             auto_delete_ttl)]
  /\ UNCHANGED <<custom_image, custom_image_family, image_version,
                 num_workers, num_preemptible_workers, internal_ip_only,
                 subnetwork_uri, init_actions_uris, init_action_timeout,
                 idle_delete_ttl, auto_delete_time, auto_delete_ttl,
                 graceful_decommission_timeout, properties_arg, parsed>>
  /\ UNCHANGED <<clusterVars, jobVars, verbVars, batchVars, engVars>>

NextGenerator ==
  \/ Construct
  \/ Make

SpecGenerator == InitGenerator /\ [][NextGenerator]_vars

----------------------------------------------------------------------------
(* The parsers as a machine: one string is handed to both call sites.      *)

InitDuration ==
  /\ ClusterIdle /\ JobIdle /\ VerbIdle /\ BatchIdle
  /\ gpc = "parse"
  /\ custom_image = FALSE /\ custom_image_family = FALSE
  /\ image_version = FALSE /\ num_workers = 2
  /\ num_preemptible_workers = 0 /\ internal_ip_only = FALSE
  /\ subnetwork_uri = FALSE /\ init_actions_uris = TRUE
  /\ idle_delete_ttl = FALSE /\ auto_delete_time = FALSE
  /\ auto_delete_ttl = FALSE
  /\ EngIdle
  /\ \E s \in DurationStrings :
       /\ init_action_timeout = s
       /\ graceful_decommission_timeout = s
  /\ properties_arg = NoProperties /\ caller_map = {} /\ properties = {}
  /\ cluster_data = NoConfig /\ graised = "none" /\ parsed = NoParse

\* one call of _get_init_action_timeout (l.254-266)
ParseInitActionTimeout ==
  /\ gpc = "parse"
  /\ LET r == GetInitActionTimeout(init_action_timeout)
     IN parsed' = [site |-> "init_action", kind |-> r.kind,
                   seconds |-> r.seconds]
  /\ gpc' = "parsed"
  /\ UNCHANGED <<custom_image, custom_image_family, image_version,
                 num_workers, num_preemptible_workers, internal_ip_only,
                 subnetwork_uri, init_actions_uris, init_action_timeout,
                 idle_delete_ttl, auto_delete_time, auto_delete_ttl,
                 graceful_decommission_timeout, properties_arg, caller_map,
                 properties, cluster_data, graised>>
  /\ UNCHANGED <<clusterVars, jobVars, verbVars, batchVars, engVars>>

\* one read of _graceful_decommission_timeout_object (l.745-772)
ParseGracefulDecommissionTimeout ==
  /\ gpc = "parse"
  /\ LET r == GracefulDecommissionTimeoutObject(graceful_decommission_timeout)
     IN parsed' = [site |-> "decommission", kind |-> r.kind,
                   seconds |-> r.seconds]
  /\ gpc' = "parsed"
  /\ UNCHANGED <<custom_image, custom_image_family, image_version,
                 num_workers, num_preemptible_workers, internal_ip_only,
                 subnetwork_uri, init_actions_uris, init_action_timeout,
                 idle_delete_ttl, auto_delete_time, auto_delete_ttl,
                 graceful_decommission_timeout, properties_arg, caller_map,
                 properties, cluster_data, graised>>
  /\ UNCHANGED <<clusterVars, jobVars, verbVars, batchVars, engVars>>

NextDuration ==
  \/ ParseInitActionTimeout
  \/ ParseGracefulDecommissionTimeout

SpecDuration == InitDuration /\ [][NextDuration]_vars

----------------------------------------------------------------------------
(* Claims about ClusterGenerator.                                          *)

TwoImageSources ==
  \/ custom_image /\ image_version
  \/ custom_image_family /\ image_version
  \/ custom_image /\ custom_image_family
SingleNodeWithPreemptible == num_workers = 0 /\ num_preemptible_workers > 0
MakeRaises ==
  \/ internal_ip_only /\ ~subnetwork_uri
  \/ init_actions_uris /\ GetInitActionTimeout(init_action_timeout).kind = "error"

\* C26 as stated: the generator rejects each of the three pairwise image
\* conflicts and the single-node + preemptible conflict, and accepts every
\* other parameter set (one with at most one image source set): neither
\* __init__ nor make() raises for it.
C26_RejectsConflictsAcceptsTheRest ==
  gpc # "new" =>
    /\ (TwoImageSources \/ SingleNodeWithPreemptible) => gpc = "rejected"
    /\ (~TwoImageSources /\ ~SingleNodeWithPreemptible) =>
         gpc \in {"built", "made"} /\ graised = "none"

\* C26 amended: __init__ raises ValueError exactly for the three pairwise
\* image conflicts and the single-node + preemptible conflict; a generator
\* that was constructed is still rejected by make(), with AirflowException,
\* exactly when internal_ip_only is set without a subnetwork_uri or init
\* actions are given with an init_action_timeout that does not parse; every
\* other parameter set is accepted.
C26_RejectsExactlyTheListedConflicts ==
  gpc # "new" =>
    /\ gpc = "rejected" <=> (TwoImageSources \/ SingleNodeWithPreemptible)
    /\ gpc = "rejected" => graised = "ValueError"
    /\ gpc = "failed" => MakeRaises /\ graised = "AirflowException"
    /\ gpc = "made" => ~MakeRaises /\ graised = "none"
    /\ gpc = "made" =>
         cluster_data.image \in {"default", "image_version", "custom_image",
                                 "custom_image_family"}

\* a single-node generator with a preemptible worker and no image conflict
\* was rejected
C26_Witness ==
  /\ gpc = "rejected" /\ graised = "ValueError"
  /\ SingleNodeWithPreemptible /\ ~TwoImageSources

\* C27 as stated: make() leaves every supplied parameter as it was, the
\* caller's properties map included, also for a single-node cluster.
C27_MakeLeavesCallerMapUnchanged ==
  gpc \in {"made", "failed"} => caller_map = properties_arg.keys

----------------------------------------------------------------------------
(* Claims about the duration parsers.                                      *)

\* the string handed to the call site that parsed
ParsedString ==
  IF parsed.site = "init_action" THEN init_action_timeout
  ELSE graceful_decommission_timeout
\* the unit characters the call site that parsed allows
AllowedUnits ==
  IF parsed.site = "init_action" THEN {"s", "m"} ELSE {"s", "m", "h", "d"}
\* s is an integer literal followed by one unit character of units
IsLiteralWithUnit(s, units) ==
  /\ Len(s) >= 2
  /\ s[Len(s)] \in units
  /\ \A i \in 1..(Len(s) - 1) : s[i] \in Digits
\* the seconds a literal with unit stands for: n, 60n, 3600n, 86400n
EquivalentSeconds(s) ==
  LET n == IntOf(SubSeq(s, 1, Len(s) - 1))
      u == s[Len(s)]
  IN CASE u = "s" -> n
       [] u = "m" -> 60 * n
       [] u = "h" -> 3600 * n
       [] u = "d" -> 86400 * n
\* s without the one newline it may end with
WithoutFinalNewline(s) ==
  IF Len(s) > 0 /\ s[Len(s)] = "\n" THEN SubSeq(s, 1, Len(s) - 1) ELSE s

\* C28 as stated: at each call site every integer literal followed by one
\* allowed unit character parses to exactly the equivalent number of
\* seconds, and every other string fails with the duration-format error.
C28_ParsesExactlyTheLiterals ==
  gpc = "parsed" =>
    IF IsLiteralWithUnit(ParsedString, AllowedUnits)
    THEN parsed.kind = "seconds"
         /\ parsed.seconds = EquivalentSeconds(ParsedString)
    ELSE parsed.kind = "error"

\* C28 amended: a final newline is ignored at both call sites; the
\* init-action site parses every literal with unit s or m, zero included, to
\* the equivalent seconds and fails for every other string; the
\* graceful-decommission site returns no duration, without an error, for
\* the empty string, parses every literal with unit s, m, h or d that is
\* worth more than zero seconds to the equivalent seconds, and fails for
\* every other string, the zero-valued literals included.
C28_ParsesLiteralsUpToNewlineAndZero ==
  gpc = "parsed" =>
    LET b == WithoutFinalNewline(ParsedString)
        literal == IsLiteralWithUnit(b, AllowedUnits)
    IN IF parsed.site = "init_action"
       THEN IF literal
            THEN parsed.kind = "seconds"
                 /\ parsed.seconds = EquivalentSeconds(b)
            ELSE parsed.kind = "error"
       ELSE IF ParsedString = <<>>
            THEN parsed.kind = "absent"
            ELSE IF literal /\ EquivalentSeconds(b) > 0
                 THEN parsed.kind = "seconds"
                      /\ parsed.seconds = EquivalentSeconds(b)
                 ELSE parsed.kind = "error"

\* the graceful-decommission site parsed "12h" to 43200 seconds
C28_Witness ==
  /\ gpc = "parsed" /\ parsed.site = "decommission"
  /\ graceful_decommission_timeout = <<"1", "2", "h">>
  /\ parsed.kind = "seconds" /\ parsed.seconds = 43200

----------------------------------------------------------------------------
(* Claims about the two wait loops of DataprocCreateClusterOperator.       *)

\* C29 as stated: in both wait loops the first fetch precedes the first
\* backoff sleep: whenever a wait has slept, it has fetched the cluster
\* before, so a wait whose target condition already holds ends with zero
\* sleeps.
C29_FetchPrecedesFirstSleep ==
  slept > 0 =>
    \/ hist.waited = "creating"
    \/ hist.waited = "deleting" /\ hist.wdSeen # "none"

\* C29 amended: only the creating wait fetches before it sleeps: it sleeps
\* only after a fetch that showed the cluster CREATING, so a cluster that
\* is no longer CREATING at the first fetch ends the wait with zero sleeps.
\* The deleting wait sleeps one backoff interval before each fetch, the
\* first included: every outcome of a fetch of that wait is preceded by at
\* least the initial interval of sleep, also when the cluster is absent
\* from the start.
C29_OnlyCreatingWaitFetchesFirst ==
  /\ pc = "wc_sleep" =>
       hist.waited = "creating" /\ cluster.state = "CREATING"
  /\ (hist.waited = "creating" /\ slept = 0 /\ pc \in {"wc_loop", "wc_sleep"})
       => calls.get >= 1
  /\ pc = "wd_fetch" => slept >= Initial
  /\ hist.wdSeen # "none" => slept >= Initial /\ lastSleep > 0

\* the deleting wait found the cluster absent at its first fetch, after it
\* had slept the initial interval
C29_Witness ==
  /\ hist.waited = "deleting" /\ hist.wdSeen = "NotFound"
  /\ slept = Initial /\ attempt = 2

\* C30: a wait loop raises the poll-timeout error exactly when its done
\* condition was not observed and the time left is strictly negative: a
\* timeout is raised only with negative time left and the cluster still
\* CREATING (still present); a loop goes on to sleep, and then fetch, only
\* with time left >= 0, zero included, and never with the done condition
\* observed; negative time left stems from the last sleep alone; and a wait
\* that observed its done condition did not time out, however negative the
\* time left is.
C30_TimeoutOnlyWhenNegativeAndNotDone ==
  /\ hist.timedOut =>
       /\ time_left < 0
       /\ pc = "failed" /\ outcome = "PollTimeoutError"
       /\ hist.waited = "creating" => cluster.state = "CREATING"
       /\ hist.waited = "deleting" => hist.wdSeen # "NotFound"
  /\ pc \in {"wc_sleep", "wd_sleep"} =>
       /\ time_left >= 0
       /\ pc = "wc_sleep" => cluster.state = "CREATING"
       /\ pc = "wd_sleep" => hist.wdSeen # "NotFound"
  /\ (pc \in {"wc_fetch", "wd_fetch"} /\ slept > 0) =>
       time_left + lastSleep >= 0
  /\ (hist.waited = "creating" /\ stage >= 2) => ~hist.timedOut
  /\ hist.wdSeen = "NotFound" => ~hist.timedOut

\* with a timeout of zero the creating wait slept once more, fetched, saw
\* the cluster no longer CREATING with the time left negative, and returned
C30_Witness ==
  /\ timeout = 0 /\ hist.waited = "creating" /\ pc = "done"
  /\ slept = Initial /\ time_left < 0 /\ ~hist.timedOut

\* execute is inside one of its two wait loops
InWaitLoop ==
  pc \in {"wc_fetch", "wc_loop", "wc_sleep", "wd_loop", "wd_sleep", "wd_fetch"}

\* C31: in a wait loop the time left starts at self.timeout and changes
\* only through the backoff sleeps, each sleep of d seconds lowering it by
\* exactly d: at every point of a wait, and after it, the time left is
\* self.timeout minus the total slept, whatever the fetches returned and
\* however many there were.
C31_TimeLeftIsTimeoutMinusSlept ==
  /\ (InWaitLoop \/ hist.waited # "none") => time_left = timeout - slept
  /\ (InWaitLoop /\ slept = 0) => time_left = timeout
  /\ (pc \in {"wc_fetch", "wd_fetch"} /\ slept > 0) =>
       time_left + lastSleep = timeout - (slept - lastSleep)

\* a wait fetched three times, each after a sleep, and the fetches left the
\* time left at self.timeout minus the 70 s slept
C31_Witness ==
  /\ pc = "wc_loop" /\ timeout = 160 /\ slept = 70 /\ time_left = 90
  /\ calls.get >= 3

\* C32: for a timeout T >= 0 the total slept in a wait is at most T plus
\* one backoff interval, hence at most T + 120: a sleep starts only while
\* the total slept is at most T, and the one sleep that may start with the
\* total already at T starts with it exactly at T and is the last.
C32_SleptAtMostTimeoutPlusOneInterval ==
  /\ timeout >= 0
  /\ slept <= timeout + 120
  /\ pc \in {"wc_sleep", "wd_sleep"} => slept <= timeout
  /\ (lastSleep > 0 /\ slept - lastSleep >= timeout) =>
       /\ slept - lastSleep = timeout
       /\ pc \notin {"wc_sleep", "wd_sleep"}
  /\ slept > timeout => pc \notin {"wc_sleep", "wd_sleep"}

\* a sleep of 80 s started with the total slept exactly at the timeout of
\* 70 s
C32_Witness ==
  /\ timeout = 70 /\ slept = 150 /\ lastSleep = 80
  /\ pc \in {"wc_fetch", "wd_fetch"}

\* The wait loops under the scheduling of the code: execute runs on one
\* thread, a sleep ends, and every fetch returns (or raises), so a step of
\* a wait loop that can be taken is taken.
WaitLoopStep ==
  \/ WaitCreatingFetch
  \/ WaitCreatingLoop
  \/ Sleep
  \/ WaitDeletingLoop
  \/ WaitDeletingFetch

SpecClusterFair == SpecCluster /\ WF_vars(WaitLoopStep)

\* C33: each wait loop terminates: an execute that is inside a wait loop
\* leaves it, by observing the done condition or by raising, also when the
\* remote state never changes.
C33_WaitLoopTerminates ==
  InWaitLoop ~> ~InWaitLoop

\* the deleting wait ended with the timeout error while the cluster was
\* still present, after the sleeps 10, 20, 40, 80 and 120
C33_Witness ==
  /\ hist.timedOut /\ pc = "failed" /\ outcome = "PollTimeoutError"
  /\ hist.waited = "deleting" /\ remote.state = "DELETING"
  /\ timeout = 160 /\ slept = 270

----------------------------------------------------------------------------
(* Claims about the remote calls of one DataprocCreateClusterOperator      *)
(* invocation.                                                             *)

\* C34: one invocation issues at most two create calls, at most one
\* diagnose call and at most one delete call; the second create follows a
\* first inspection that showed DELETING and a fetch of the deleting wait
\* that raised NotFound; diagnose is called for a cluster observed in
\* ERROR, and delete only after that diagnose call returned.
C34_CallBudgetOfOneInvocation ==
  /\ calls.create <= 2 /\ calls.diagnose <= 1 /\ calls.delete <= 1
  /\ calls.create = 2 =>
       /\ hist.firstState = "DELETING"
       /\ hist.notFound /\ hist.wdSeen = "NotFound"
  /\ calls.diagnose = 1 => cluster.state = "ERROR" /\ hist.errStage # 0
  /\ calls.delete = 1 =>
       /\ calls.diagnose = 1 /\ hist.diagnosed
       /\ cluster.state = "ERROR"

\* the re-created cluster ended in ERROR: two creates, one diagnose and one
\* delete in one invocation
C34_Witness ==
  /\ calls.create = 2 /\ calls.diagnose = 1 /\ calls.delete = 1
  /\ hist.errStage = 3

\* C35: an invocation that returned normally returns the cluster it
\* observed last, and that cluster is not in ERROR, on each path: after the
\* direct create or the adoption (stage 1), after the creating wait
\* (stage 2) and after the create that follows the deleting wait (stage 3);
\* no ERROR was seen by any inspection of that invocation.
C35_ReturnedClusterIsNotInError ==
  pc = "done" =>
    /\ outcome = "returned"
    /\ cluster.state \in ClusterStates \ {"ERROR"}
    /\ stage \in {1, 2, 3}
    /\ hist.errStage = 0 /\ calls.diagnose = 0 /\ calls.delete = 0
    /\ hist.inspected >= 1
    /\ stage \in {2, 3} => hist.inspected = 2

\* an adopted cluster was waited for while CREATING and returned RUNNING,
\* after at least one sleep
C35_Witness ==
  /\ pc = "done" /\ hist.adopted /\ stage = 2 /\ hist.waited = "creating"
  /\ hist.inspected = 2 /\ cluster.state = "RUNNING" /\ slept > 0

----------------------------------------------------------------------------
(* Further claims about on_kill of the job-submit operators.               *)

\* C36 as stated: no cancel call is issued before the submit call of that
\* job: an on_kill that fires before the submission, also after the job id
\* was generated locally, issues no call.
C36_NoCancelBeforeSubmit ==
  /\ jobCalls.cancel > 0 => jobCalls.submit > 0
  /\ killedAt \in {"start", "submit"} => jobCalls.cancel = 0

----------------------------------------------------------------------------
(* The engine operators built on DataprocJobBaseOperator: what their       *)
(* __init__ and execute do before super().execute(context): the query      *)
(* operators choose between query and query_uri, the PySpark operator      *)
(* stages a local main file.                                               *)

Engines == {"pig", "hive", "spark_sql", "pyspark"}
QueryEngines == {"pig", "hive", "spark_sql"}

\* l.1184-1185, l.1258-1259: the check in __init__ of the Hive and the
\* Spark SQL operator; the Pig operator has none (l.1106-1109)
InitRejectsBothQueries(eng, q, u) ==
  eng \in {"hive", "spark_sql"} /\ q /\ u

\* l.1127-1132 (and l.1201-1206, l.1275-1280): what the template is given;
\* "raise" when neither is set
QuerySource(q, u) ==
  IF ~q THEN (IF ~u THEN "raise" ELSE "query_uri") ELSE "query"

\* l.1533: os.path.isfile(self.main)
IsFile(m) == m = "local"

UploadRaisesWithoutBucketNever(b) == FALSE

\* l.1467-1471: _upload_file_temp raises when the bucket is empty
UploadRaisesWithoutBucket(b) == ~b

InitEngine ==
  /\ ClusterIdle /\ VerbIdle /\ BatchIdle /\ GenIdle
  /\ jpc = "idle" /\ jkind = "engine" /\ asynchronous \in BOOLEAN
  /\ cancel_on_kill = TRUE /\ job_error_states = {"ERROR"}
  /\ hookErrorStates = {"ERROR"} /\ jobIdField = 0 /\ submittedId = 0
  /\ jobState = "NONE" /\ jobCalls = [submit |-> 0, wait |-> 0, cancel |-> 0]
  /\ cancelled = {} /\ killedAt = "" /\ joutcome = "none" /\ retval = 0
  /\ epc = "new"
  /\ engine \in Engines
  /\ query \in (IF engine \in QueryEngines THEN BOOLEAN ELSE {FALSE})
  /\ query_uri \in (IF engine \in QueryEngines THEN BOOLEAN ELSE {FALSE})
  /\ query_source = "none"
  /\ main \in (IF engine = "pyspark" THEN {"local", "uri"} ELSE {"uri"})
  /\ config_bucket \in (IF engine = "pyspark" THEN BOOLEAN ELSE {FALSE})
  /\ ecalls = [get |-> 0, upload |-> 0]
  /\ eraised = "none"

EngineFail(err) == epc' = "failed" /\ eraised' = err

\* __init__ of the engine operator (l.1089-1109, l.1163-1185, l.1237-1259,
\* l.1483-1507)
EngineConstruct ==
  /\ epc = "new"
  /\ IF InitRejectsBothQueries(engine, query, query_uri)
       THEN epc' = "rejected" /\ eraised' = "AirflowException"
       ELSE epc' = "start" /\ eraised' = eraised
  /\ UNCHANGED <<engine, query, query_uri, query_source, main, config_bucket,
                 ecalls>>
  /\ UNCHANGED <<clusterVars, jobVars, verbVars, batchVars, genVars>>

\* execute up to the choice of the query (l.1125-1133) or the test of
\* self.main (l.1531-1533)
EngineTemplate ==
  /\ epc = "start"
  /\ IF engine \in QueryEngines
       THEN IF QuerySource(query, query_uri) = "raise"
              THEN EngineFail("AirflowException") /\ UNCHANGED query_source
              ELSE /\ query_source' = QuerySource(query, query_uri)
                   /\ epc' = "super" /\ eraised' = eraised
       ELSE /\ epc' = IF IsFile(main) THEN "get_cluster" ELSE "super"
            /\ UNCHANGED <<query_source, eraised>>
  /\ UNCHANGED <<engine, query, query_uri, main, config_bucket, ecalls>>
  /\ UNCHANGED <<clusterVars, jobVars, verbVars, batchVars, genVars>>

\* l.1534-1537: hook.get_cluster and the cluster's config_bucket
PyGetCluster ==
  /\ epc = "get_cluster"
  /\ ecalls' = [ecalls EXCEPT !.get = @ + 1]
  /\ \/ epc' = "upload_temp" /\ eraised' = eraised
     \/ EngineFail("RemoteError")
  /\ UNCHANGED <<engine, query, query_uri, query_source, main, config_bucket>>
  /\ UNCHANGED <<clusterVars, jobVars, verbVars, batchVars, genVars>>

\* l.1464-1481: _upload_file_temp, whose result replaces self.main (l.1538)
PyUploadFileTemp ==
  /\ epc = "upload_temp"
  /\ IF UploadRaisesWithoutBucket(config_bucket)
       THEN EngineFail("AirflowException") /\ UNCHANGED <<ecalls, main>>
       ELSE /\ ecalls' = [ecalls EXCEPT !.upload = @ + 1]
            /\ \/ main' = "staged" /\ epc' = "super" /\ eraised' = eraised
               \/ EngineFail("RemoteError") /\ UNCHANGED main
  /\ UNCHANGED <<engine, query, query_uri, query_source, config_bucket>>
  /\ UNCHANGED <<clusterVars, jobVars, verbVars, batchVars, genVars>>

\* l.1137, l.1211, l.1283, l.1545: super().execute(context)
EngineSuper ==
  /\ epc = "super"
  /\ epc' = "base"
  /\ jpc' = "start"
  /\ UNCHANGED <<engine, query, query_uri, query_source, main, config_bucket,
                 ecalls, eraised>>
  /\ UNCHANGED <<jkind, asynchronous, cancel_on_kill, job_error_states,
                 hookErrorStates, jobIdField, submittedId, jobState, jobCalls,
                 cancelled, killedAt, joutcome, retval>>
  /\ UNCHANGED <<clusterVars, verbVars, batchVars, genVars>>

NextEngine ==
  \/ EngineConstruct
  \/ EngineTemplate
  \/ PyGetCluster
  \/ PyUploadFileTemp
  \/ EngineSuper
  \/ JobBuild
  \/ SubmitJob
  \/ JobXcomPush
  \/ WaitForJob
  \/ ReturnJobId
  \/ OnKill
  \/ JobEnvironment

SpecEngine == InitEngine /\ [][NextEngine]_vars

----------------------------------------------------------------------------
(* Claims about the engine operators.                                      *)

\* C37: in the PySpark operator the upload is made only for a local main
\* file, at most once, and has completed before the submit call is issued;
\* without a staging bucket execute fails with no upload and no submit.
C37_UploadOnlyForLocalMainBeforeSubmit ==
  /\ ecalls.upload <= 1
  /\ ecalls.upload = 1 =>
       engine = "pyspark" /\ main \in {"local", "staged"} /\ ecalls.get = 1
  /\ main = "staged" <=> (ecalls.upload = 1 /\ eraised # "RemoteError")
  /\ jobCalls.submit >= 1 => main # "local"
  /\ (engine = "pyspark" /\ ~config_bucket) =>
       /\ ecalls.upload = 0
       /\ main = "local" => jobCalls.submit = 0 /\ epc # "base"
       /\ (main = "local" /\ ecalls.get = 1 /\ epc \notin {"upload_temp"})
            => epc = "failed"

\* a local main file was staged by one upload and the job then submitted
C37_Witness ==
  /\ engine = "pyspark" /\ main = "staged" /\ ecalls.upload = 1
  /\ jobCalls.submit = 1 /\ jpc = "done"

\* C40 as stated: for each query operator (Pig, Hive, Spark SQL) supplying
\* both query and query_uri is rejected with an error; supplying neither is
\* rejected before any call is issued; no job is submitted whose template
\* was given both.
C40_QueryAndQueryUriAreExclusive ==
  engine \in QueryEngines =>
    /\ (query /\ query_uri /\ epc # "new") =>
         epc = "rejected" /\ eraised = "AirflowException"
    /\ (~query /\ ~query_uri) =>
         /\ jobCalls.submit = 0
         /\ epc \in {"new", "start", "failed"}
    /\ jobCalls.submit >= 1 =>
         /\ query_source \in {"query", "query_uri"}
         /\ query_source = "query" => query
         /\ query_source = "query_uri" => query_uri /\ ~query

----------------------------------------------------------------------------
(* Claims about the lifecycle config and about zero-valued durations.      *)

\* C38 as stated: the lifecycle config of a built cluster config carries at
\* most one of idle_delete_ttl, auto_delete_time and auto_delete_ttl, and
\* with auto_delete_time and auto_delete_ttl both supplied only
\* auto_delete_time is emitted.
C38_LifecycleCarriesAtMostOnePolicy ==
  gpc = "made" =>
    /\ Cardinality(cluster_data.lifecycle_config) <= 1
    /\ (auto_delete_time /\ auto_delete_ttl) =>
         cluster_data.lifecycle_config = {"auto_delete_time"}

\* C38 amended: the lifecycle config carries at most one of
\* auto_delete_time and auto_delete_ttl, auto_delete_time when both are
\* supplied, and auto_delete_ttl exactly when it alone of the two is
\* supplied; idle_delete_ttl is emitted exactly when it is supplied,
\* whatever the other two are.
C38_AutoDeletesExcludeEachOtherIdleIsIndependent ==
  gpc = "made" =>
    LET lc == cluster_data.lifecycle_config
    IN /\ ~({"auto_delete_time", "auto_delete_ttl"} \subseteq lc)
       /\ "auto_delete_time" \in lc <=> auto_delete_time
       /\ "auto_delete_ttl" \in lc <=> (auto_delete_ttl /\ ~auto_delete_time)
       /\ "idle_delete_ttl" \in lc <=> idle_delete_ttl
       /\ Cardinality(lc) <= 2

\* all three were supplied and the built config carries idle_delete_ttl
\* together with auto_delete_time
C38_Witness ==
  /\ gpc = "made"
  /\ idle_delete_ttl /\ auto_delete_time /\ auto_delete_ttl
  /\ cluster_data.lifecycle_config = {"idle_delete_ttl", "auto_delete_time"}

\* C39 as stated: at neither call site is a zero-valued duration string
\* accepted and passed on as a duration of 0 seconds: it is rejected with
\* the duration-format error or treated as absent.
C39_ZeroDurationIsNeverPassedOn ==
  gpc = "parsed" => ~(parsed.kind = "seconds" /\ parsed.seconds = 0)

====
